---- MODULE Spec2Model ----
(***************************************************************************)
(* Request pipeline and wire encodings of the Jupiter / Autobahn swap API  *)
(* clients (jupiter-swap-api-client, autobahn-swap-api-client).            *)
(*                                                                         *)
(* A client issues one call at a time in this model: the call builds an    *)
(* HTTP request, hands it to a transport (through the middleware chain     *)
(* when the request is built on self.client), the transport answers or     *)
(* fails, and the handler classifies the outcome.                          *)
(***************************************************************************)
EXTENDS Integers, Sequences, FiniteSets, TLC

VARIABLES
    ctor,       \* how the client was constructed: [fn, middlewares]
    client,     \* JupiterSwapApiClient: [crate, base_path, middlewares]
    pc,         \* position of the running call
    op,         \* the operation running ("none" when idle)
    req,        \* the caller's request value
    wire,       \* the HTTP request handed to the sender
    resp,       \* what the awaited send() yielded so far
    mwpos,      \* index of the middleware currently holding the request
    trace,      \* events of the running call, in order
    sends,      \* HTTP requests the transport received for the running call
    result,     \* value returned to the caller
    attempts,   \* retry_quote: attempts started so far
    clock,      \* retry_quote: elapsed time units
    sentAt,     \* retry_quote: clock value at each attempt
    allFailed,  \* retry_quote: every answer so far was a status/transport failure
    succeededAt \* retry_quote: attempt whose answer was a decodable success (0: none)

vars == <<ctor, client, pc, op, req, wire, resp, mwpos, trace, sends, result,
          attempts, clock, sentAt, allFailed, succeededAt>>

-----------------------------------------------------------------------------
(* Bounds of the model *)

MaxMiddlewares == 2

MaxAttempts == 3

RetryDelay == 2

MaxJitter == 1

\* longest byte sequence handed to the base64 codec
MaxBlobLen == 3

\* most account metas in an instruction
MaxAccounts == 2

\* calls in flight at once on one client
MaxCalls == 2

-----------------------------------------------------------------------------
(* Option<T> *)

None == [some |-> FALSE]

Some(v) == [some |-> TRUE, v |-> v]

OptMap(o, F(_)) == IF o.some THEN Some(F(o.v)) ELSE None

Range(s) == {s[i] : i \in 1..Len(s)}

\* every enumeration of the finite set S as a sequence (HashMap iteration order)
Orderings(S) == {s \in [1..Cardinality(S) -> S] : Range(s) = S}

-----------------------------------------------------------------------------
(* Scalar wire encodings *)

Digit(d) == CASE d = 0 -> "0" [] d = 1 -> "1" [] d = 2 -> "2" [] d = 3 -> "3"
              [] d = 4 -> "4" [] d = 5 -> "5" [] d = 6 -> "6" [] d = 7 -> "7"
              [] d = 8 -> "8" [] d = 9 -> "9"

RECURSIVE int_to_string(_)
int_to_string(n) == IF n < 10 THEN Digit(n)
                    ELSE int_to_string(n \div 10) \o Digit(n % 10)

bool_to_string(b) == IF b THEN "true" ELSE "false"

\* The addresses the example programs use, by name.
Pubkeys == {"USDC_MINT", "NATIVE_MINT", "TEST_WALLET"}

pubkey_to_string(p) ==
    CASE p = "USDC_MINT"   -> "EPjFWdd5AufqSSqeM2qN1xzybapC8G4wEGGkZwyTDt1v"
      [] p = "NATIVE_MINT" -> "So11111111111111111111111111111111111111112"
      [] p = "TEST_WALLET" -> "2AQdpHJ2JpcEgPiATUXjQxA8QmafFegfQwSLWSprPicm"
      [] p = "default"     -> "11111111111111111111111111111111"

\* JSON text of a string and of an object given as <<key, json text>> pairs
json_string(s) == "\"" \o s \o "\""

RECURSIVE json_members(_)
json_members(pairs) ==
    IF pairs = <<>> THEN ""
    ELSE json_string(pairs[1][1]) \o ":" \o pairs[1][2]
         \o (IF Len(pairs) = 1 THEN "" ELSE "," \o json_members(Tail(pairs)))

json_object(pairs) == "{" \o json_members(pairs) \o "}"

RECURSIVE json_elements(_)
json_elements(items) ==
    IF items = <<>> THEN ""
    ELSE items[1] \o (IF Len(items) = 1 THEN "" ELSE "," \o json_elements(Tail(items)))

json_array(items) == "[" \o json_elements(items) \o "]"

json_option(o) == IF o.some THEN o.v ELSE "null"

-----------------------------------------------------------------------------
(* Result<T, E> of the codecs, and strings the codecs look into *)

Good(v) == [ok |-> TRUE, v |-> v]

Bad(e) == [ok |-> FALSE, err |-> e]

\* A string the codecs inspect is the sequence of its characters; a string
\* they only compare or pass on may be held in one piece.
RECURSIVE string_of(_)
string_of(chars) == IF chars = <<>> THEN "" ELSE Head(chars) \o string_of(Tail(chars))

-----------------------------------------------------------------------------
(* u64: four 16-bit limbs, least significant first *)

LimbBase == 65536

u64_of(n) == <<n % LimbBase, n \div LimbBase, 0, 0>>

u64_MAX == <<LimbBase - 1, LimbBase - 1, LimbBase - 1, LimbBase - 1>>

u32_MAX == <<LimbBase - 1, LimbBase - 1, 0, 0>>

fits_u32(x) == x[3] = 0 /\ x[4] = 0

fits_u8(x) == x[1] < 256 /\ x[2] = 0 /\ x[3] = 0 /\ x[4] = 0

fits_u16(x) == x[2] = 0 /\ x[3] = 0 /\ x[4] = 0

\* x / 10 and x % 10, by long division from the top limb
u64_divmod10(x) ==
    LET t4 == x[4]
        t3 == (t4 % 10) * LimbBase + x[3]
        t2 == (t3 % 10) * LimbBase + x[2]
        t1 == (t2 % 10) * LimbBase + x[1]
    IN  [q |-> <<t1 \div 10, t2 \div 10, t3 \div 10, t4 \div 10>>, r |-> t1 % 10]

\* impl Display for u64 (ToString::to_string): the decimal digits, no sign,
\* no leading zero
RECURSIVE u64_to_string(_)
u64_to_string(x) ==
    LET dm == u64_divmod10(x)
    IN  IF dm.q = <<0, 0, 0, 0>> THEN <<Digit(dm.r)>>
        ELSE u64_to_string(dm.q) \o <<Digit(dm.r)>>

\* char::to_digit(10)
to_digit(c) ==
    CASE c = "0" -> 0 [] c = "1" -> 1 [] c = "2" -> 2 [] c = "3" -> 3 [] c = "4" -> 4
      [] c = "5" -> 5 [] c = "6" -> 6 [] c = "7" -> 7 [] c = "8" -> 8 [] c = "9" -> 9
      [] OTHER -> -1

\* x.checked_mul(10) then checked_add(d): None when the result needs a 65th bit
u64_checked_mul10_add(x, d) ==
    LET t1 == x[1] * 10 + d
        t2 == x[2] * 10 + t1 \div LimbBase
        t3 == x[3] * 10 + t2 \div LimbBase
        t4 == x[4] * 10 + t3 \div LimbBase
    IN  IF t4 \div LimbBase > 0 THEN None
        ELSE Some(<<t1 % LimbBase, t2 % LimbBase, t3 % LimbBase, t4 % LimbBase>>)

\* the digit loop of <u64 as FromStr>::from_str
RECURSIVE u64_from_digits(_, _)
u64_from_digits(acc, chars) ==
    IF chars = <<>> THEN Good(acc)
    ELSE LET d == to_digit(Head(chars))
         IN  IF d < 0 THEN Bad("InvalidDigit")
             ELSE LET next == u64_checked_mul10_add(acc, d)
                  IN  IF ~next.some THEN Bad("PosOverflow")
                      ELSE u64_from_digits(next.v, Tail(chars))

u64_from_str_as_u32(chars) ==
    LET parsed == u64_from_digits(<<0, 0, 0, 0>>, chars)
    IN  IF parsed.ok THEN Good(<<parsed.v[1], parsed.v[2], 0, 0>>) ELSE parsed

\* <u64 as FromStr>::from_str (str::parse::<u64>): an optional '+', then digits
u64_from_str(chars) ==
    IF chars = <<>> THEN Bad("Empty")
    ELSE LET digits == IF Head(chars) = "+" THEN Tail(chars) ELSE chars
         IN  IF digits = <<>> THEN Bad("InvalidDigit")
             ELSE u64_from_digits(<<0, 0, 0, 0>>, digits)

-----------------------------------------------------------------------------
(* base64: the STANDARD engine (RFC 4648 alphabet, '=' padding) *)

Base64Alphabet ==
    << "A", "B", "C", "D", "E", "F", "G", "H", "I", "J", "K", "L", "M", "N", "O", "P",
       "Q", "R", "S", "T", "U", "V", "W", "X", "Y", "Z", "a", "b", "c", "d", "e", "f",
       "g", "h", "i", "j", "k", "l", "m", "n", "o", "p", "q", "r", "s", "t", "u", "v",
       "w", "x", "y", "z", "0", "1", "2", "3", "4", "5", "6", "7", "8", "9", "+", "/" >>

base64_symbol_url_safe(v) ==
    IF v = 62 THEN "-" ELSE IF v = 63 THEN "_" ELSE Base64Alphabet[v + 1]

\* the character of a 6-bit value
base64_symbol(v) == Base64Alphabet[v + 1]

\* the 6-bit value of a character, -1 for a character outside the alphabet
base64_value(c) ==
    IF \E i \in 1..64 : Base64Alphabet[i] = c
    THEN (CHOOSE i \in 1..64 : Base64Alphabet[i] = c) - 1
    ELSE -1

\* Engine::encode: three bytes to four characters, the last group padded
RECURSIVE base64_encode(_)
base64_encode(b) ==
    IF b = <<>> THEN <<>>
    ELSE IF Len(b) = 1 THEN
        << base64_symbol(b[1] \div 4), base64_symbol((b[1] % 4) * 16), "=", "=" >>
    ELSE IF Len(b) = 2 THEN
        << base64_symbol(b[1] \div 4),
           base64_symbol((b[1] % 4) * 16 + b[2] \div 16),
           base64_symbol((b[2] % 16) * 4), "=" >>
    ELSE
        << base64_symbol(b[1] \div 4),
           base64_symbol((b[1] % 4) * 16 + b[2] \div 16),
           base64_symbol((b[2] % 16) * 4 + b[3] \div 64),
           base64_symbol(b[3] % 64) >>
        \o base64_encode(SubSeq(b, 4, Len(b)))

\* one group of four characters; padding is allowed in the last group only,
\* and the bits a padded group leaves over must be zero
base64_decode_quad(q, last) ==
    LET v1 == base64_value(q[1])
        v2 == base64_value(q[2])
        v3 == base64_value(q[3])
        v4 == base64_value(q[4])
    IN  IF v1 < 0 \/ v2 < 0 THEN Bad("InvalidByte")
        ELSE IF q[3] = "=" THEN
            IF ~last \/ q[4] # "=" THEN Bad("InvalidByte")
            ELSE IF v2 % 16 # 0 THEN Bad("InvalidLastSymbol")
            ELSE Good(<< v1 * 4 + v2 \div 16 >>)
        ELSE IF v3 < 0 THEN Bad("InvalidByte")
        ELSE IF q[4] = "=" THEN
            IF ~last THEN Bad("InvalidByte")
            ELSE IF v3 % 4 # 0 THEN Bad("InvalidLastSymbol")
            ELSE Good(<< v1 * 4 + v2 \div 16, (v2 % 16) * 16 + v3 \div 4 >>)
        ELSE IF v4 < 0 THEN Bad("InvalidByte")
        ELSE Good(<< v1 * 4 + v2 \div 16, (v2 % 16) * 16 + v3 \div 4, (v3 % 4) * 64 + v4 >>)

\* Engine::decode with canonical padding required
RECURSIVE base64_decode(_)
base64_decode(chars) ==
    IF chars = <<>> THEN Good(<<>>)
    ELSE IF Len(chars) % 4 # 0 THEN
        IF \E i \in 1..Len(chars) : base64_value(chars[i]) < 0 /\ chars[i] # "="
        THEN Bad("InvalidByte") ELSE Bad("InvalidPadding")
    ELSE LET first == base64_decode_quad(SubSeq(chars, 1, 4), Len(chars) = 4)
         IN  IF ~first.ok THEN first
             ELSE LET rest == base64_decode(SubSeq(chars, 5, Len(chars)))
                  IN  IF ~rest.ok THEN rest ELSE Good(first.v \o rest.v)

-----------------------------------------------------------------------------
(* serde_json::Value: the JSON data a body or a field holds *)

JNull == [t |-> "null"]

JBool(b) == [t |-> "bool", b |-> b]

\* a non-negative integer that fits u64
JU64(x) == [t |-> "u64", n |-> x]

\* a negative integer, by its magnitude
JI64(x) == [t |-> "i64", n |-> x]

\* a number with a fraction or an exponent, by its text
JF64(s) == [t |-> "f64", text |-> s]

JStr(chars) == [t |-> "str", s |-> chars]

JArr(items) == [t |-> "arr", items |-> items]

\* members are <<key, value>> pairs in document order
JObj(members) == [t |-> "obj", members |-> members]

\* serde_json::to_string of a Value
RECURSIVE json_text(_)
json_text(val) ==
    CASE val.t = "null" -> "null"
      [] val.t = "bool" -> bool_to_string(val.b)
      [] val.t = "u64" -> string_of(u64_to_string(val.n))
      [] val.t = "i64" -> "-" \o string_of(u64_to_string(val.n))
      [] val.t = "f64" -> val.text
      [] val.t = "str" -> json_string(string_of(val.s))
      [] val.t = "arr" ->
            json_array([i \in 1..Len(val.items) |-> json_text(val.items[i])])
      [] val.t = "obj" ->
            json_object([i \in 1..Len(val.members) |->
                            <<val.members[i][1], json_text(val.members[i][2])>>])

has_member(val, k) == \E i \in 1..Len(val.members) : val.members[i][1] = k

duplicate_member(val, k) ==
    \E i, j \in 1..Len(val.members) :
        i # j /\ val.members[i][1] = k /\ val.members[j][1] = k

member(val, k) ==
    val.members[CHOOSE i \in 1..Len(val.members) : val.members[i][1] = k][2]

\* a member marked skip_serializing_if = "Option::is_none" is given as an
\* Option and left out when None
value_fields(fields) ==
    LET kept == SelectSeq(fields, LAMBDA f : f[2].some)
    IN  [i \in 1..Len(kept) |-> <<kept[i][1], kept[i][2].v>>]

value_option(o) == IF o.some THEN o.v ELSE JNull

\* Deserialize for u64 / u32 / u16 / u8 / bool / String
u64_deserialize(val) ==
    IF val.t = "u64" THEN Good(val.n) ELSE Bad("invalid type")

u32_deserialize(val) ==
    IF val.t # "u64" THEN Bad("invalid type")
    ELSE IF ~fits_u32(val.n) THEN Bad("invalid value")
    ELSE Good(val.n)

u16_deserialize(val) ==
    IF val.t # "u64" THEN Bad("invalid type")
    ELSE IF ~fits_u16(val.n) THEN Bad("invalid value")
    ELSE Good(val.n)

u8_deserialize(val) ==
    IF val.t # "u64" THEN Bad("invalid type")
    ELSE IF ~fits_u8(val.n) THEN Bad("invalid value")
    ELSE Good(val.n)

bool_deserialize(val) ==
    IF val.t = "bool" THEN Good(val.b) ELSE Bad("invalid type")

String_deserialize(val) ==
    IF val.t = "str" THEN Good(val.s) ELSE Bad("invalid type")

\* deserialize_enum for a unit variant: its name as a string, or an object
\* with the name as its single key and null as the value
unit_variant_name(val) ==
    IF val.t = "str" THEN Good(string_of(val.s))
    ELSE IF val.t = "obj" THEN
        IF Len(val.members) # 1 THEN Bad("map with a single key")
        ELSE IF val.members[1][2].t # "null" THEN Bad("invalid type")
        ELSE Good(val.members[1][1])
    ELSE Bad("invalid type")

\* the first error among the results of a struct's fields, in field order
first_error(results) ==
    results[CHOOSE i \in 1..Len(results) :
                ~results[i].ok /\ \A j \in 1..(i - 1) : results[j].ok]

all_ok(results) == \A i \in 1..Len(results) : results[i].ok

\* Result::map_err
map_err(r, e) == IF r.ok THEN r ELSE Bad(e)

\* Result::map(Some)
map_Some(r) == IF r.ok THEN Good(Some(r.v)) ELSE r

\* Iterator::collect::<Result<Vec<_>, _>>: the first error, or all the values
collect(results) ==
    IF all_ok(results) THEN Good([i \in 1..Len(results) |-> results[i].v])
    ELSE first_error(results)

\* derive(Deserialize) on a struct, from its <<field, result>> pairs in
\* declaration order: the first field error, or the struct of the decoded fields
struct(fields) ==
    IF \A i \in 1..Len(fields) : fields[i][2].ok
    THEN Good([k \in {fields[i][1] : i \in 1..Len(fields)} |->
                  fields[CHOOSE i \in 1..Len(fields) : fields[i][1] = k][2].v])
    ELSE fields[CHOOSE i \in 1..Len(fields) :
                    ~fields[i][2].ok /\ \A j \in 1..(i - 1) : fields[j][2].ok][2]

\* a struct field without a default: the member must be there, once
required(val, k, D(_)) ==
    IF ~has_member(val, k) THEN Bad("missing field")
    ELSE IF duplicate_member(val, k) THEN Bad("duplicate field")
    ELSE D(member(val, k))

\* a field with #[serde(default)] (or of a struct marked so)
defaulted(val, k, D(_), default) ==
    IF ~has_member(val, k) THEN Good(default)
    ELSE IF duplicate_member(val, k) THEN Bad("duplicate field")
    ELSE D(member(val, k))

\* Deserialize for Option<T>: null is None, anything else is Some(T)
Option_deserialize(val, D(_)) ==
    IF val.t = "null" THEN Good(None)
    ELSE IF D(val).ok THEN Good(Some(D(val).v)) ELSE D(val)

\* a field of type Option<T> without a `with`: a missing member is None
optional(val, k, D(_)) ==
    IF ~has_member(val, k) THEN Good(None)
    ELSE IF duplicate_member(val, k) THEN Bad("duplicate field")
    ELSE Option_deserialize(member(val, k), D)

\* Deserialize for Vec<T>
Vec_deserialize(val, D(_)) ==
    IF val.t # "arr" THEN Bad("invalid type")
    ELSE collect([i \in 1..Len(val.items) |-> D(val.items[i])])

\* Pubkey::from_str on the addresses of this model
Pubkey_from_str(chars) ==
    IF \E p \in Pubkeys \cup {"default"} : pubkey_to_string(p) = string_of(chars)
    THEN Good(CHOOSE p \in Pubkeys \cup {"default"} : pubkey_to_string(p) = string_of(chars))
    ELSE Bad("ParsePubkeyError")

\* ToString::to_string / str::parse for the types held as strings on the wire
to_string(T, t) == IF T = "u64" THEN u64_to_string(t) ELSE <<pubkey_to_string(t)>>

from_str(T, chars) == IF T = "u64" THEN u64_from_str(chars) ELSE Pubkey_from_str(chars)

\* serde_helpers::field_as_string::serialize: the value's to_string as a string
field_as_string_serialize(T, t) == JStr(to_string(T, t))

\* serde_helpers::field_as_string::deserialize: a string, parsed
field_as_string_deserialize(T, val) ==
    IF val.t # "str" THEN String_deserialize(val)
    ELSE map_err(from_str(T, val.s), "Parse error")

\* option_field_as_string::serialize writing an empty string for None
option_field_as_string_serialize_none_as_empty(T, t) ==
    IF t.some THEN JStr(to_string(T, t.v)) ELSE JStr(<<>>)

\* serde_helpers::option_field_as_string::serialize
option_field_as_string_serialize(T, t) ==
    IF t.some THEN JStr(to_string(T, t.v)) ELSE JNull

\* option_field_as_string::deserialize taking an unparsable text for an absent value
option_field_as_string_deserialize_lenient(T, val) ==
    IF val.t = "null" THEN Good(None)
    ELSE IF val.t # "str" THEN String_deserialize(val)
    ELSE IF from_str(T, val.s).ok THEN map_Some(from_str(T, val.s)) ELSE Good(None)

\* serde_helpers::option_field_as_string::deserialize
option_field_as_string_deserialize(T, val) ==
    IF val.t = "null" THEN Good(None)
    ELSE IF val.t # "str" THEN String_deserialize(val)
    ELSE map_Some(map_err(from_str(T, val.s), "Parse error"))

u64_field(val) == field_as_string_deserialize("u64", val)

Pubkey_field(val) == field_as_string_deserialize("Pubkey", val)

-----------------------------------------------------------------------------
(* quote.rs: QuoteRequest, InternalQuoteRequest and the GET /quote query *)

swap_mode_to_string(m) == CASE m = "ExactIn" -> "ExactIn" [] m = "ExactOut" -> "ExactOut"

\* impl Default for QuoteRequest
QuoteRequest_default ==
    [input_mint |-> "default", output_mint |-> "default", amount |-> 0,
     swap_mode |-> None, slippage_bps |-> 50, auto_slippage |-> None,
     max_auto_slippage_bps |-> None, compute_auto_slippage |-> FALSE,
     auto_slippage_collision_usd_value |-> None, minimize_slippage |-> None,
     platform_fee_bps |-> None, dexes |-> None, excluded_dexes |-> None,
     only_direct_routes |-> None, as_legacy_transaction |-> None,
     restrict_intermediate_tokens |-> None, max_accounts |-> None,
     quote_type |-> None, quote_args |-> None, prefer_liquid_dexes |-> None,
     compute_unit_score |-> None, routing_constraints |-> None,
     token_category_based_intermediate_tokens |-> None]

\* the request of example/src/main.rs
ExampleQuoteRequest ==
    [QuoteRequest_default EXCEPT !.amount = 1000000, !.input_mint = "USDC_MINT",
        !.output_mint = "NATIVE_MINT",
        !.dexes = Some("Whirlpool,Meteora DLMM,Raydium CLMM"), !.slippage_bps = 50]

\* the QuoteRequest values callers pass in this model
QuoteRequests ==
    { ExampleQuoteRequest,
      [ExampleQuoteRequest EXCEPT !.compute_unit_score = Some([max_penalty_bps |-> Some("2.5")])],
      [ExampleQuoteRequest EXCEPT !.routing_constraints = Some("rc")],
      [ExampleQuoteRequest EXCEPT !.token_category_based_intermediate_tokens = Some(TRUE)],
      [ExampleQuoteRequest EXCEPT !.quote_type = Some("bellman"),
          !.quote_args = Some({<<"k1", "v1">>, <<"k2", "v2">>})],
      [QuoteRequest_default EXCEPT !.amount = 7, !.input_mint = "NATIVE_MINT",
          !.output_mint = "USDC_MINT", !.swap_mode = Some("ExactOut"),
          !.max_accounts = Some(20), !.only_direct_routes = Some(TRUE),
          !.platform_fee_bps = Some(5), !.quote_args = Some({<<"k1", "v1">>}),
          !.compute_unit_score = Some([max_penalty_bps |-> None]),
          !.routing_constraints = Some("rc"),
          !.token_category_based_intermediate_tokens = Some(FALSE)] }

\* impl From<QuoteRequest> for InternalQuoteRequest
InternalQuoteRequest_from(request) ==
    [input_mint |-> request.input_mint,
     output_mint |-> request.output_mint,
     amount |-> request.amount,
     swap_mode |-> request.swap_mode,
     slippage_bps |-> request.slippage_bps,
     auto_slippage |-> request.auto_slippage,
     max_auto_slippage_bps |-> request.max_auto_slippage_bps,
     compute_auto_slippage |-> request.compute_auto_slippage,
     auto_slippage_collision_usd_value |-> request.auto_slippage_collision_usd_value,
     minimize_slippage |-> request.minimize_slippage,
     platform_fee_bps |-> request.platform_fee_bps,
     dexes |-> request.dexes,
     excluded_dexes |-> request.excluded_dexes,
     only_direct_routes |-> request.only_direct_routes,
     as_legacy_transaction |-> request.as_legacy_transaction,
     restrict_intermediate_tokens |-> request.restrict_intermediate_tokens,
     max_accounts |-> request.max_accounts,
     quote_type |-> request.quote_type,
     prefer_liquid_dexes |-> request.prefer_liquid_dexes]

Identity(x) == x

\* a struct as query pairs: a None field is left out, the others are
\* <<camelCase name, text>> in declaration order
query_pairs(fields) ==
    LET kept == SelectSeq(fields, LAMBDA f : f[2].some)
    IN  [i \in 1..Len(kept) |-> <<kept[i][1], kept[i][2].v>>]

\* #[derive(Serialize)] #[serde(rename_all = "camelCase")] InternalQuoteRequest
InternalQuoteRequest_query(r) ==
    query_pairs(<<
        <<"inputMint", Some(pubkey_to_string(r.input_mint))>>,
        <<"outputMint", Some(pubkey_to_string(r.output_mint))>>,
        <<"amount", Some(int_to_string(r.amount))>>,
        <<"swapMode", OptMap(r.swap_mode, swap_mode_to_string)>>,
        <<"slippageBps", Some(int_to_string(r.slippage_bps))>>,
        <<"autoSlippage", OptMap(r.auto_slippage, bool_to_string)>>,
        <<"maxAutoSlippageBps", OptMap(r.max_auto_slippage_bps, int_to_string)>>,
        <<"computeAutoSlippage", Some(bool_to_string(r.compute_auto_slippage))>>,
        <<"autoSlippageCollisionUsdValue",
            OptMap(r.auto_slippage_collision_usd_value, int_to_string)>>,
        <<"minimizeSlippage", OptMap(r.minimize_slippage, bool_to_string)>>,
        <<"platformFeeBps", OptMap(r.platform_fee_bps, int_to_string)>>,
        <<"dexes", OptMap(r.dexes, Identity)>>,
        <<"excludedDexes", OptMap(r.excluded_dexes, Identity)>>,
        <<"onlyDirectRoutes", OptMap(r.only_direct_routes, bool_to_string)>>,
        <<"asLegacyTransaction", OptMap(r.as_legacy_transaction, bool_to_string)>>,
        <<"restrictIntermediateTokens",
            OptMap(r.restrict_intermediate_tokens, bool_to_string)>>,
        <<"maxAccounts", OptMap(r.max_accounts, int_to_string)>>,
        <<"quoteType", OptMap(r.quote_type, Identity)>>,
        <<"preferLiquidDexes", OptMap(r.prefer_liquid_dexes, bool_to_string)>> >>)

\* .query(&extra_args): the entries of the map in some iteration order, none for None
extra_args_queries(extra_args) ==
    IF extra_args.some THEN Orderings(extra_args.v) ELSE {<<>>}

-----------------------------------------------------------------------------
(* quote.rs: QuoteResponse and its JSON encoding *)

\* #[derive(Serialize)] SwapMode
SwapMode_serialize(m) == JStr(<<swap_mode_to_string(m)>>)

SwapMode_deserialize_swapped(val) ==
    LET name == unit_variant_name(val)
    IN  IF ~name.ok THEN name
        ELSE CASE name.v = "ExactIn" -> Good("ExactOut")
               [] name.v = "ExactOut" -> Good("ExactIn")
               [] OTHER -> Bad("unknown variant")

\* #[derive(Deserialize)] SwapMode
SwapMode_deserialize(val) ==
    LET name == unit_variant_name(val)
    IN  IF ~name.ok THEN name
        ELSE CASE name.v = "ExactIn" -> Good("ExactIn")
               [] name.v = "ExactOut" -> Good("ExactOut")
               [] OTHER -> Bad("unknown variant")

\* #[derive(Serialize)] SwapInfo
SwapInfo_serialize(i) ==
    JObj(<<
        <<"ammKey", field_as_string_serialize("Pubkey", i.amm_key)>>,
        <<"label", JStr(<<i.label>>)>>,
        <<"inputMint", field_as_string_serialize("Pubkey", i.input_mint)>>,
        <<"outputMint", field_as_string_serialize("Pubkey", i.output_mint)>>,
        <<"inAmount", field_as_string_serialize("u64", i.in_amount)>>,
        <<"outAmount", field_as_string_serialize("u64", i.out_amount)>> >>)

SwapInfo_json(i) == json_text(SwapInfo_serialize(i))

label_deserialize(val) ==
    IF val.t = "str" THEN Good(string_of(val.s)) ELSE Bad("invalid type")

\* #[derive(Deserialize)] SwapInfo, from an object
SwapInfo_deserialize(val) ==
    IF val.t # "obj" THEN Bad("invalid type")
    ELSE struct(<< <<"amm_key", required(val, "ammKey", Pubkey_field)>>,
                   <<"label", required(val, "label", label_deserialize)>>,
                   <<"input_mint", required(val, "inputMint", Pubkey_field)>>,
                   <<"output_mint", required(val, "outputMint", Pubkey_field)>>,
                   <<"in_amount", required(val, "inAmount", u64_field)>>,
                   <<"out_amount", required(val, "outAmount", u64_field)>> >>)

\* one step of RoutePlanWithMetadata
RoutePlanStep_serialize(st) ==
    JObj(<<
        <<"swapInfo", SwapInfo_serialize(st.swap_info)>>,
        <<"percent", JU64(st.percent)>> >>)

RoutePlanStep_json(st) == json_text(RoutePlanStep_serialize(st))

RoutePlanStep_deserialize(val) ==
    IF val.t # "obj" THEN Bad("invalid type")
    ELSE struct(<< <<"swap_info", required(val, "swapInfo", SwapInfo_deserialize)>>,
                   <<"percent", required(val, "percent", u8_deserialize)>> >>)

RoutePlanWithMetadata_deserialize(val) == Vec_deserialize(val, RoutePlanStep_deserialize)

\* PlatformFee written with the fee rate under the amount's name
PlatformFee_serialize_fields_exchanged(f) ==
    JObj(<<
        <<"amount", field_as_string_serialize("u64", f.fee_bps)>>,
        <<"feeBps", JU64(f.fee_bps)>> >>)

\* #[derive(Serialize)] PlatformFee
PlatformFee_serialize(f) ==
    JObj(<<
        <<"amount", field_as_string_serialize("u64", f.amount)>>,
        <<"feeBps", JU64(f.fee_bps)>> >>)

PlatformFee_json(f) == json_text(PlatformFee_serialize(f))

\* #[derive(Deserialize)] PlatformFee, from an object
PlatformFee_deserialize(val) ==
    IF val.t # "obj" THEN Bad("invalid type")
    ELSE struct(<< <<"amount", required(val, "amount", u64_field)>>,
                   <<"fee_bps", required(val, "feeBps", u8_deserialize)>> >>)

\* the members of an object: a field marked skip_serializing_if = "Option::is_none"
\* is given as an Option and left out when None
json_fields(fields) ==
    LET kept == SelectSeq(fields, LAMBDA f : f[2].some)
    IN  [i \in 1..Len(kept) |-> <<kept[i][1], kept[i][2].v>>]

\* rust_decimal::Decimal and f64 are held by their decimal text
Decimal_deserialize(val) ==
    CASE val.t = "str" -> Good(string_of(val.s))
      [] val.t = "f64" -> Good(val.text)
      [] val.t = "u64" -> Good(string_of(u64_to_string(val.n)))
      [] OTHER -> Bad("invalid type")

f64_deserialize(val) ==
    CASE val.t = "f64" -> Good(val.text)
      [] val.t = "u64" -> Good(string_of(u64_to_string(val.n)) \o ".0")
      [] OTHER -> Bad("invalid type")

\* #[derive(Serialize)] #[serde(rename_all = "camelCase")] QuoteResponse
QuoteResponse_serialize(q) ==
    JObj(value_fields(<<
        <<"inputMint", Some(field_as_string_serialize("Pubkey", q.input_mint))>>,
        <<"inAmount", Some(field_as_string_serialize("u64", q.in_amount))>>,
        <<"outputMint", Some(field_as_string_serialize("Pubkey", q.output_mint))>>,
        <<"outAmount", Some(field_as_string_serialize("u64", q.out_amount))>>,
        <<"otherAmountThreshold",
            Some(field_as_string_serialize("u64", q.other_amount_threshold))>>,
        <<"swapMode", Some(SwapMode_serialize(q.swap_mode))>>,
        <<"slippageBps", Some(JU64(q.slippage_bps))>>,
        <<"computedAutoSlippage", OptMap(q.computed_auto_slippage, JU64)>>,
        <<"usesQuoteMinimizingSlippage",
            OptMap(q.uses_quote_minimizing_slippage, JBool)>>,
        <<"platformFee", Some(value_option(OptMap(q.platform_fee, PlatformFee_serialize)))>>,
        <<"priceImpactPct", Some(JStr(<<q.price_impact_pct>>))>>,
        <<"routePlan",
            Some(JArr([i \in 1..Len(q.route_plan) |->
                            RoutePlanStep_serialize(q.route_plan[i])]))>>,
        <<"contextSlot", Some(JU64(q.context_slot))>>,
        <<"timeTaken", Some(JF64(q.time_taken))>> >>))

QuoteResponse_json(q) == json_text(QuoteResponse_serialize(q))

\* #[derive(Deserialize)] #[serde(rename_all = "camelCase")] QuoteResponse,
\* from an object
QuoteResponse_deserialize(val) ==
    IF val.t # "obj" THEN Bad("invalid type")
    ELSE struct(<< <<"input_mint", required(val, "inputMint", Pubkey_field)>>,
                   <<"in_amount", required(val, "inAmount", u64_field)>>,
                   <<"output_mint", required(val, "outputMint", Pubkey_field)>>,
                   <<"out_amount", required(val, "outAmount", u64_field)>>,
                   <<"other_amount_threshold", required(val, "otherAmountThreshold", u64_field)>>,
                   <<"swap_mode", required(val, "swapMode", SwapMode_deserialize)>>,
                   <<"slippage_bps", required(val, "slippageBps", u16_deserialize)>>,
                   <<"computed_auto_slippage", optional(val, "computedAutoSlippage",
                       u16_deserialize)>>,
                   <<"uses_quote_minimizing_slippage", optional(val,
                       "usesQuoteMinimizingSlippage", bool_deserialize)>>,
                   <<"platform_fee", optional(val, "platformFee", PlatformFee_deserialize)>>,
                   <<"price_impact_pct", required(val, "priceImpactPct", Decimal_deserialize)>>,
                   <<"route_plan", required(val, "routePlan",
                   RoutePlanWithMetadata_deserialize)>>,
                   <<"context_slot", defaulted(val, "contextSlot", u64_deserialize, u64_of(0))>>,
                   <<"time_taken", defaulted(val, "timeTaken", f64_deserialize, "0.0")>> >>)

\* the QuoteResponse values a caller holds in this model; the first is the
\* quote of 1_000_000 USDC units for 50_000_000_000 lamports
QuoteResponses ==
    { [input_mint |-> "USDC_MINT", in_amount |-> u64_of(1000000),
       output_mint |-> "NATIVE_MINT", out_amount |-> <<29696, 42043, 11, 0>>,
       other_amount_threshold |-> u64_of(4975000), swap_mode |-> "ExactIn",
       slippage_bps |-> u64_of(50), computed_auto_slippage |-> None,
       uses_quote_minimizing_slippage |-> None, platform_fee |-> None,
       price_impact_pct |-> "0.01",
       route_plan |-> << [swap_info |-> [amm_key |-> "TEST_WALLET", label |-> "Whirlpool",
                                        input_mint |-> "USDC_MINT",
                                        output_mint |-> "NATIVE_MINT",
                                        in_amount |-> u64_of(1000000),
                                        out_amount |-> <<29696, 42043, 11, 0>>],
                          percent |-> u64_of(100)] >>,
       context_slot |-> u64_of(0), time_taken |-> "0.0"],
      [input_mint |-> "NATIVE_MINT", in_amount |-> u64_of(7),
       output_mint |-> "USDC_MINT", out_amount |-> u64_of(9),
       other_amount_threshold |-> u64_of(8), swap_mode |-> "ExactOut",
       slippage_bps |-> u64_of(50), computed_auto_slippage |-> Some(u64_of(30)),
       uses_quote_minimizing_slippage |-> Some(FALSE),
       platform_fee |-> Some([amount |-> u64_of(1), fee_bps |-> u64_of(5)]),
       price_impact_pct |-> "0", route_plan |-> <<>>,
       context_slot |-> u64_of(12), time_taken |-> "0.5"] }

-----------------------------------------------------------------------------
(* transaction_config.rs: TransactionConfig and its JSON encoding *)

\* #[derive(Serialize)] #[serde(rename_all = "camelCase")] PriorityLevel
PriorityLevel_serialize(l) ==
    CASE l = "Medium" -> JStr(<<"medium">>)
      [] l = "High" -> JStr(<<"high">>)
      [] l = "VeryHigh" -> JStr(<<"veryHigh">>)

PriorityLevel_json(l) == json_text(PriorityLevel_serialize(l))

\* #[derive(Deserialize)] #[serde(rename_all = "camelCase")] PriorityLevel
PriorityLevel_deserialize(val) ==
    LET name == unit_variant_name(val)
    IN  IF ~name.ok THEN name
        ELSE CASE name.v = "medium" -> Good("Medium")
               [] name.v = "high" -> Good("High")
               [] name.v = "veryHigh" -> Good("VeryHigh")
               [] OTHER -> Bad("unknown variant")

\* fn auto accepting the name of any unit variant
auto_any_name(val) ==
    LET name == unit_variant_name(val)
    IN  IF ~name.ok THEN name ELSE Good("unit")

\* fn auto: the helper enum whose only variant is named "auto"
auto(val) ==
    LET name == unit_variant_name(val)
    IN  IF ~name.ok THEN name
        ELSE IF name.v = "auto" THEN Good("unit")
        ELSE Bad("unknown variant")

\* fn disabled: the helper enum whose only variant is named "disabled"
disabled(val) ==
    LET name == unit_variant_name(val)
    IN  IF ~name.ok THEN name
        ELSE IF name.v = "disabled" THEN Good("unit")
        ELSE Bad("unknown variant")

\* #[derive(Serialize)] #[serde(untagged)] ComputeUnitPriceMicroLamports: the
\* newtype variant is its number, the unit variant is a unit
ComputeUnitPriceMicroLamports_serialize(v) ==
    CASE v.tag = "MicroLamports" -> JU64(v.n)
      [] v.tag = "Auto" -> JNull

ComputeUnitPriceMicroLamports_json(v) ==
    json_text(ComputeUnitPriceMicroLamports_serialize(v))

\* #[derive(Deserialize)] #[serde(untagged)] ComputeUnitPriceMicroLamports:
\* the variants are tried in declaration order
ComputeUnitPriceMicroLamports_deserialize(val) ==
    IF u64_deserialize(val).ok
    THEN Good([tag |-> "MicroLamports", n |-> u64_deserialize(val).v])
    ELSE IF auto(val).ok THEN Good([tag |-> "Auto"])
    ELSE Bad("data did not match any variant")

PrioritizationFeeLamports_serialize_jito_as_number(v) ==
    CASE v.tag = "AutoMultiplier" -> JObj(<< <<"autoMultiplier", JU64(v.n)>> >>)
      [] v.tag = "JitoTipLamports" -> JU64(v.n)
      [] v.tag = "Auto" -> JStr(<<"auto">>)
      [] v.tag = "Lamports" -> JU64(v.n)
      [] v.tag = "Disabled" -> JStr(<<"disabled">>)
      [] v.tag = "PriorityLevelWithMaxLamports" ->
            JObj(<< <<"priorityLevelWithMaxLamports",
                JObj(<<
                    <<"priorityLevel", PriorityLevel_serialize(v.priority_level)>>,
                    <<"maxLamports", JU64(v.max_lamports)>>,
                    <<"global", JBool(v.global)>> >>)>> >>)

\* impl Serialize for PrioritizationFeeLamports
PrioritizationFeeLamports_serialize(v) ==
    CASE v.tag = "AutoMultiplier" -> JObj(<< <<"autoMultiplier", JU64(v.n)>> >>)
      [] v.tag = "JitoTipLamports" -> JObj(<< <<"jitoTipLamports", JU64(v.n)>> >>)
      [] v.tag = "Auto" -> JStr(<<"auto">>)
      [] v.tag = "Lamports" -> JU64(v.n)
      [] v.tag = "Disabled" -> JStr(<<"disabled">>)
      [] v.tag = "PriorityLevelWithMaxLamports" ->
            JObj(<< <<"priorityLevelWithMaxLamports",
                JObj(<<
                    <<"priorityLevel", PriorityLevel_serialize(v.priority_level)>>,
                    <<"maxLamports", JU64(v.max_lamports)>>,
                    <<"global", JBool(v.global)>> >>)>> >>)

PrioritizationFeeLamports_json(v) == json_text(PrioritizationFeeLamports_serialize(v))

\* the struct variant PriorityLevelWithMaxLamports { priority_level,
\* max_lamports, #[serde(default)] global } from an object or from a sequence
PriorityLevelWithMaxLamports_deserialize(val) ==
    IF val.t = "obj" THEN
        IF \E k \in {"priorityLevel", "maxLamports", "global"} : duplicate_member(val, k)
        THEN Bad("duplicate field")
        ELSE IF ~has_member(val, "priorityLevel") \/ ~has_member(val, "maxLamports")
        THEN Bad("missing field")
        ELSE LET level == PriorityLevel_deserialize(member(val, "priorityLevel"))
                 max == u64_deserialize(member(val, "maxLamports"))
                 global == IF has_member(val, "global")
                           THEN bool_deserialize(member(val, "global"))
                           ELSE Good(FALSE)
             IN  IF ~level.ok THEN level
                 ELSE IF ~max.ok THEN max
                 ELSE IF ~global.ok THEN global
                 ELSE Good([tag |-> "PriorityLevelWithMaxLamports",
                            priority_level |-> level.v, max_lamports |-> max.v,
                            global |-> global.v])
    ELSE IF val.t = "arr" THEN
        IF Len(val.items) < 2 THEN Bad("invalid length")
        ELSE LET level == PriorityLevel_deserialize(val.items[1])
                 max == u64_deserialize(val.items[2])
                 global == IF Len(val.items) >= 3 THEN bool_deserialize(val.items[3])
                           ELSE Good(FALSE)
             IN  IF ~level.ok THEN level
                 ELSE IF ~max.ok THEN max
                 ELSE IF ~global.ok THEN global
                 ELSE IF Len(val.items) > 3 THEN Bad("invalid length")
                 ELSE Good([tag |-> "PriorityLevelWithMaxLamports",
                            priority_level |-> level.v, max_lamports |-> max.v,
                            global |-> global.v])
    ELSE Bad("invalid type")

\* the externally tagged variants of PrioritizationFeeLamports: an object with
\* the variant name as its single key
PrioritizationFeeLamports_tagged(val) ==
    IF val.t = "str" THEN
        IF string_of(val.s) \in {"autoMultiplier", "jitoTipLamports",
                                 "priorityLevelWithMaxLamports"}
        THEN Bad("invalid type") ELSE Bad("unknown variant")
    ELSE IF val.t # "obj" THEN Bad("invalid type")
    ELSE IF Len(val.members) # 1 THEN Bad("map with a single key")
    ELSE LET k == val.members[1][1]
             payload == val.members[1][2]
         IN  CASE k = "autoMultiplier" ->
                    IF u32_deserialize(payload).ok
                    THEN Good([tag |-> "AutoMultiplier", n |-> u32_deserialize(payload).v])
                    ELSE u32_deserialize(payload)
               [] k = "jitoTipLamports" ->
                    IF u64_deserialize(payload).ok
                    THEN Good([tag |-> "JitoTipLamports", n |-> u64_deserialize(payload).v])
                    ELSE u64_deserialize(payload)
               [] k = "priorityLevelWithMaxLamports" ->
                    PriorityLevelWithMaxLamports_deserialize(payload)
               [] OTHER -> Bad("unknown variant")

\* #[derive(Deserialize)] PrioritizationFeeLamports: the tagged variants first,
\* then the untagged ones in declaration order (Auto, Lamports, Disabled)
PrioritizationFeeLamports_deserialize(val) ==
    IF PrioritizationFeeLamports_tagged(val).ok THEN PrioritizationFeeLamports_tagged(val)
    ELSE IF auto(val).ok THEN Good([tag |-> "Auto"])
    ELSE IF u64_deserialize(val).ok
    THEN Good([tag |-> "Lamports", n |-> u64_deserialize(val).v])
    ELSE IF disabled(val).ok THEN Good([tag |-> "Disabled"])
    ELSE Bad("data did not match any variant")

\* the recognizers of PrioritizationFeeLamports: the externally tagged
\* variants taken together, and each untagged variant
Recognizers == {"tagged", "Auto", "Lamports", "Disabled"}

\* what one recognizer makes of a wire value
recognize(r, val) ==
    CASE r = "tagged" -> PrioritizationFeeLamports_tagged(val)
      [] r = "Auto" -> IF auto(val).ok THEN Good([tag |-> "Auto"]) ELSE auto(val)
      [] r = "Lamports" ->
            IF u64_deserialize(val).ok
            THEN Good([tag |-> "Lamports", n |-> u64_deserialize(val).v])
            ELSE u64_deserialize(val)
      [] r = "Disabled" ->
            IF disabled(val).ok THEN Good([tag |-> "Disabled"]) ELSE disabled(val)

\* the recognizers tried in the given order, the first match taken
first_match(order, val) ==
    IF \E i \in 1..Len(order) : recognize(order[i], val).ok
    THEN recognize(order[CHOOSE i \in 1..Len(order) :
                            /\ recognize(order[i], val).ok
                            /\ \A j \in 1..(i - 1) : ~recognize(order[j], val).ok], val)
    ELSE Bad("data did not match any variant")

\* the order the derive tries them in: tagged variants, then the untagged ones
\* in declaration order
DeriveOrder == <<"tagged", "Auto", "Lamports", "Disabled">>

\* sentinel strings, then the bare number, then the single-key objects
SentinelsFirstOrder == <<"Auto", "Disabled", "Lamports", "tagged">>

\* #[derive(Serialize)] DynamicSlippageSettings
DynamicSlippageSettings_serialize(d) ==
    JObj(<<
        <<"minBps", value_option(OptMap(d.min_bps, JU64))>>,
        <<"maxBps", value_option(OptMap(d.max_bps, JU64))>> >>)

DynamicSlippageSettings_json(d) == json_text(DynamicSlippageSettings_serialize(d))

\* #[derive(Deserialize)] DynamicSlippageSettings, from an object
DynamicSlippageSettings_deserialize(val) ==
    IF val.t # "obj" THEN Bad("invalid type")
    ELSE struct(<< <<"min_bps", optional(val, "minBps", u16_deserialize)>>,
                   <<"max_bps", optional(val, "maxBps", u16_deserialize)>> >>)

pubkey_json(p) == json_string(pubkey_to_string(p))

TransactionConfig_default_shared_accounts_on ==
    [wrap_and_unwrap_sol |-> TRUE,
     allow_optimized_wrapped_sol_token_account |-> FALSE,
     fee_account |-> None,
     destination_token_account |-> None,
     tracking_account |-> None,
     compute_unit_price_micro_lamports |-> None,
     prioritization_fee_lamports |-> None,
     dynamic_compute_unit_limit |-> FALSE,
     as_legacy_transaction |-> FALSE,
     use_shared_accounts |-> Some(TRUE),
     use_token_ledger |-> FALSE,
     skip_user_accounts_rpc_calls |-> FALSE,
     keyed_ui_accounts |-> None,
     program_authority_id |-> None,
     dynamic_slippage |-> None,
     blockhash_slots_to_expiry |-> None,
     correct_last_valid_block_height |-> FALSE]

\* impl Default for TransactionConfig
TransactionConfig_default ==
    [wrap_and_unwrap_sol |-> TRUE,
     allow_optimized_wrapped_sol_token_account |-> FALSE,
     fee_account |-> None,
     destination_token_account |-> None,
     tracking_account |-> None,
     compute_unit_price_micro_lamports |-> None,
     prioritization_fee_lamports |-> None,
     dynamic_compute_unit_limit |-> FALSE,
     as_legacy_transaction |-> FALSE,
     use_shared_accounts |-> None,
     use_token_ledger |-> FALSE,
     skip_user_accounts_rpc_calls |-> FALSE,
     keyed_ui_accounts |-> None,
     program_authority_id |-> None,
     dynamic_slippage |-> None,
     blockhash_slots_to_expiry |-> None,
     correct_last_valid_block_height |-> FALSE]

\* #[derive(Serialize)] TransactionConfig: its members, in declaration order
TransactionConfig_serialize(c) ==
    << <<"wrapAndUnwrapSol", JBool(c.wrap_and_unwrap_sol)>>,
       <<"allowOptimizedWrappedSolTokenAccount",
            JBool(c.allow_optimized_wrapped_sol_token_account)>>,
       <<"feeAccount", option_field_as_string_serialize("Pubkey", c.fee_account)>>,
       <<"destinationTokenAccount",
            option_field_as_string_serialize("Pubkey", c.destination_token_account)>>,
       <<"trackingAccount",
            option_field_as_string_serialize("Pubkey", c.tracking_account)>>,
       <<"computeUnitPriceMicroLamports",
            value_option(OptMap(c.compute_unit_price_micro_lamports,
                                ComputeUnitPriceMicroLamports_serialize))>>,
       <<"prioritizationFeeLamports",
            value_option(OptMap(c.prioritization_fee_lamports,
                                PrioritizationFeeLamports_serialize))>>,
       <<"dynamicComputeUnitLimit", JBool(c.dynamic_compute_unit_limit)>>,
       <<"asLegacyTransaction", JBool(c.as_legacy_transaction)>>,
       <<"useSharedAccounts", value_option(OptMap(c.use_shared_accounts, JBool))>>,
       <<"useTokenLedger", JBool(c.use_token_ledger)>>,
       <<"skipUserAccountsRpcCalls", JBool(c.skip_user_accounts_rpc_calls)>>,
       <<"keyedUiAccounts", value_option(OptMap(c.keyed_ui_accounts, JArr))>>,
       <<"programAuthorityId", value_option(OptMap(c.program_authority_id, JU64))>>,
       <<"dynamicSlippage",
            value_option(OptMap(c.dynamic_slippage, DynamicSlippageSettings_serialize))>>,
       <<"blockhashSlotsToExpiry",
            value_option(OptMap(c.blockhash_slots_to_expiry, JU64))>>,
       <<"correctLastValidBlockHeight", JBool(c.correct_last_valid_block_height)>> >>

\* the members a TransactionConfig contributes to the object that holds it
TransactionConfig_members(c) ==
    [i \in 1..Len(TransactionConfig_serialize(c)) |->
        <<TransactionConfig_serialize(c)[i][1],
          json_text(TransactionConfig_serialize(c)[i][2])>>]

\* a field with `with = "option_field_as_string"` of a struct marked
\* #[serde(default)]: a missing member takes the default
defaulted_as_string(val, k, default) ==
    IF ~has_member(val, k) THEN Good(default)
    ELSE IF duplicate_member(val, k) THEN Bad("duplicate field")
    ELSE option_field_as_string_deserialize("Pubkey", member(val, k))

\* a field of type Option<T> of a struct marked #[serde(default)]
defaulted_option(val, k, D(_), default) ==
    IF ~has_member(val, k) THEN Good(default)
    ELSE IF duplicate_member(val, k) THEN Bad("duplicate field")
    ELSE Option_deserialize(member(val, k), D)

\* KeyedUiAccount holds account data of the chain's own format: kept as given
KeyedUiAccount_deserialize(val) ==
    IF val.t = "obj" THEN Good(val) ELSE Bad("invalid type")

\* #[derive(Deserialize)] #[serde(default)] TransactionConfig, from an object:
\* a member that is missing takes its value from TransactionConfig::default()
TransactionConfig_deserialize(val) ==
    IF val.t # "obj" THEN Bad("invalid type")
    ELSE struct(<< <<"wrap_and_unwrap_sol", defaulted(val, "wrapAndUnwrapSol", bool_deserialize,
                       TransactionConfig_default.wrap_and_unwrap_sol)>>,
                   <<"allow_optimized_wrapped_sol_token_account", defaulted(val,
                       "allowOptimizedWrappedSolTokenAccount", bool_deserialize,
                       TransactionConfig_default.allow_optimized_wrapped_sol_token_account)>>,
                   <<"fee_account", defaulted_as_string(val, "feeAccount",
                       TransactionConfig_default.fee_account)>>,
                   <<"destination_token_account", defaulted_as_string(val,
                       "destinationTokenAccount",
                       TransactionConfig_default.destination_token_account)>>,
                   <<"tracking_account", defaulted_as_string(val, "trackingAccount",
                       TransactionConfig_default.tracking_account)>>,
                   <<"compute_unit_price_micro_lamports", defaulted_option(val,
                       "computeUnitPriceMicroLamports",
                       ComputeUnitPriceMicroLamports_deserialize,
                       TransactionConfig_default.compute_unit_price_micro_lamports)>>,
                   <<"prioritization_fee_lamports", defaulted_option(val,
                       "prioritizationFeeLamports", PrioritizationFeeLamports_deserialize,
                       TransactionConfig_default.prioritization_fee_lamports)>>,
                   <<"dynamic_compute_unit_limit", defaulted(val, "dynamicComputeUnitLimit",
                       bool_deserialize, TransactionConfig_default.dynamic_compute_unit_limit)>>,
                   <<"as_legacy_transaction", defaulted(val, "asLegacyTransaction",
                       bool_deserialize, TransactionConfig_default.as_legacy_transaction)>>,
                   <<"use_shared_accounts", defaulted_option(val, "useSharedAccounts",
                       bool_deserialize, TransactionConfig_default.use_shared_accounts)>>,
                   <<"use_token_ledger", defaulted(val, "useTokenLedger", bool_deserialize,
                       TransactionConfig_default.use_token_ledger)>>,
                   <<"skip_user_accounts_rpc_calls", defaulted(val, "skipUserAccountsRpcCalls",
                       bool_deserialize,
                       TransactionConfig_default.skip_user_accounts_rpc_calls)>>,
                   <<"keyed_ui_accounts", defaulted_option(val, "keyedUiAccounts",
                       LAMBDA a : Vec_deserialize(a, KeyedUiAccount_deserialize),
                       TransactionConfig_default.keyed_ui_accounts)>>,
                   <<"program_authority_id", defaulted_option(val, "programAuthorityId",
                       u8_deserialize, TransactionConfig_default.program_authority_id)>>,
                   <<"dynamic_slippage", defaulted_option(val, "dynamicSlippage",
                       DynamicSlippageSettings_deserialize,
                       TransactionConfig_default.dynamic_slippage)>>,
                   <<"blockhash_slots_to_expiry", defaulted_option(val, "blockhashSlotsToExpiry",
                       u8_deserialize, TransactionConfig_default.blockhash_slots_to_expiry)>>,
                   <<"correct_last_valid_block_height", defaulted(val,
                       "correctLastValidBlockHeight", bool_deserialize,
                       TransactionConfig_default.correct_last_valid_block_height)>> >>)

\* the TransactionConfig values callers pass in this model
TransactionConfigs ==
    { TransactionConfig_default,
      [TransactionConfig_default EXCEPT
          !.wrap_and_unwrap_sol = FALSE,
          !.fee_account = Some("TEST_WALLET"),
          !.prioritization_fee_lamports =
              Some([tag |-> "PriorityLevelWithMaxLamports", priority_level |-> "VeryHigh",
                    max_lamports |-> u64_of(1000), global |-> FALSE]),
          !.use_shared_accounts = Some(TRUE),
          !.keyed_ui_accounts = Some(<<>>),
          !.dynamic_slippage = Some([min_bps |-> Some(u64_of(10)), max_bps |-> None]),
          !.program_authority_id = Some(u64_of(3))],
      [TransactionConfig_default EXCEPT
          !.compute_unit_price_micro_lamports = Some([tag |-> "MicroLamports", n |-> u64_of(25)]),
          !.as_legacy_transaction = TRUE,
          !.destination_token_account = Some("USDC_MINT")] }

-----------------------------------------------------------------------------
(* swap.rs: SwapRequest and the JSON body of POST /swap, /swap-instructions *)

\* jupiter-swap-api-client: #[derive(Serialize)] SwapRequest, config flattened
SwapRequest_members(r) ==
    << <<"userPublicKey", pubkey_json(r.user_public_key)>>,
       <<"quoteResponse", QuoteResponse_json(r.quote_response)>> >>
    \o TransactionConfig_members(r.config)

\* autobahn-swap-api-client: #[derive(Serialize)] SwapRequest
AutobahnSwapRequest_members(r) ==
    << <<"userPublicKey", json_string(r.user_public_key)>>,
       <<"wrapAndUnwrapSol", bool_to_string(r.wrap_and_unwrap_sol)>>,
       <<"autoCreateOutAta", bool_to_string(r.auto_create_out_ata)>>,
       <<"useSharedAccounts", bool_to_string(r.use_shared_accounts)>>,
       <<"feeAccount", json_option(OptMap(r.fee_account, json_string))>>,
       <<"computeUnitPriceMicroLamports",
            json_option(OptMap(r.compute_unit_price_micro_lamports, int_to_string))>>,
       <<"asLegacyTransaction", bool_to_string(r.as_legacy_transaction)>>,
       <<"useTokenLedger", bool_to_string(r.use_token_ledger)>>,
       <<"destinationTokenAccount",
            json_option(OptMap(r.destination_token_account, json_string))>>,
       <<"quoteResponse", QuoteResponse_json(r.quote_response)>> >>

\* the SwapRequest values callers pass, per crate
SwapRequests(crate) ==
    IF crate = "jupiter"
    THEN { [user_public_key |-> "TEST_WALLET", quote_response |-> q, config |-> c] :
                q \in QuoteResponses, c \in TransactionConfigs }
    ELSE { [user_public_key |-> "2AQdpHJ2JpcEgPiATUXjQxA8QmafFegfQwSLWSprPicm",
            wrap_and_unwrap_sol |-> FALSE, auto_create_out_ata |-> FALSE,
            use_shared_accounts |-> FALSE, fee_account |-> None,
            compute_unit_price_micro_lamports |-> cup,
            as_legacy_transaction |-> FALSE, use_token_ledger |-> FALSE,
            destination_token_account |-> None, quote_response |-> q] :
                q \in QuoteResponses, cup \in {None, Some(25)} }

SwapRequest_json_members(crate, r) ==
    IF crate = "jupiter" THEN SwapRequest_members(r) ELSE AutobahnSwapRequest_members(r)

\* the optional extra query parameters of swap
ExtraArgs == {None, Some({<<"k1", "v1">>})}

-----------------------------------------------------------------------------
(* swap.rs: the responses of POST /swap and /swap-instructions, decoded *)

\* swap.rs base64_serialize_deserialize::serialize
base64_serialize_deserialize_serialize(v) == JStr(base64_encode(v))

\* swap.rs base64_serialize_deserialize::deserialize
base64_serialize_deserialize_deserialize(val) ==
    IF val.t # "str" THEN String_deserialize(val)
    ELSE map_err(base64_decode(val.s), "base64 decoding error")

\* serde_helpers::field_as_base64::serialize
field_as_base64_serialize(v) == JStr(base64_encode(v))

\* serde_helpers::field_as_base64::deserialize
field_as_base64_deserialize(val) ==
    IF val.t # "str" THEN String_deserialize(val)
    ELSE map_err(base64_decode(val.s), "base64 decoding error")

\* #[derive(Deserialize)] PrioritizationType: Jito { lamports } or
\* ComputeBudget { micro_lamports, estimated_micro_lamports }
PrioritizationType_deserialize(val) ==
    IF val.t # "obj" THEN Bad("invalid type")
    ELSE IF Len(val.members) # 1 THEN Bad("map with a single key")
    ELSE LET k == val.members[1][1]
             payload == val.members[1][2]
         IN  IF payload.t # "obj" THEN Bad("invalid type")
             ELSE CASE k = "jito" ->
                        LET lamports == required(payload, "lamports", u64_deserialize)
                        IN  IF ~lamports.ok THEN lamports
                            ELSE Good([tag |-> "Jito", lamports |-> lamports.v])
                    [] k = "computeBudget" ->
                        LET micro == required(payload, "microLamports", u64_deserialize)
                            estimated == optional(payload, "estimatedMicroLamports",
                                                  u64_deserialize)
                        IN  IF ~micro.ok THEN micro
                            ELSE IF ~estimated.ok THEN estimated
                            ELSE Good([tag |-> "ComputeBudget", micro_lamports |-> micro.v,
                                       estimated_micro_lamports |-> estimated.v])
                    [] OTHER -> Bad("unknown variant")

\* Deserialize for i16, held as <<sign, magnitude>>
i16_deserialize(val) ==
    IF val.t = "u64" /\ fits_u16(val.n) /\ val.n[1] < 32768 THEN Good(<<1, val.n[1]>>)
    ELSE IF val.t = "i64" /\ fits_u16(val.n) /\ val.n[1] <= 32768
    THEN Good(<<-1, val.n[1]>>)
    ELSE IF val.t \in {"u64", "i64"} THEN Bad("invalid value")
    ELSE Bad("invalid type")

\* #[derive(Deserialize)] DynamicSlippageReport, from an object
DynamicSlippageReport_deserialize(val) ==
    IF val.t # "obj" THEN Bad("invalid type")
    ELSE struct(<< <<"slippage_bps", required(val, "slippageBps", u16_deserialize)>>,
                   <<"other_amount", optional(val, "otherAmount", u64_deserialize)>>,
                   <<"simulated_incurred_slippage_bps", optional(val,
                       "simulatedIncurredSlippageBps", i16_deserialize)>>,
                   <<"amplification_ratio", optional(val, "amplificationRatio",
                       Decimal_deserialize)>> >>)

\* #[derive(Deserialize)] UiSimulationError, from an object
UiSimulationError_deserialize(val) ==
    IF val.t # "obj" THEN Bad("invalid type")
    ELSE struct(<< <<"error_code", required(val, "errorCode", label_deserialize)>>,
                   <<"error", required(val, "error", label_deserialize)>> >>)

\* jupiter-swap-api-client: #[derive(Deserialize)] SwapResponse, from an object
SwapResponse_deserialize(val) ==
    IF val.t # "obj" THEN Bad("invalid type")
    ELSE struct(<< <<"swap_transaction", required(val, "swapTransaction",
                       base64_serialize_deserialize_deserialize)>>,
                   <<"last_valid_block_height", required(val, "lastValidBlockHeight",
                       u64_deserialize)>>,
                   <<"prioritization_fee_lamports", required(val, "prioritizationFeeLamports",
                       u64_deserialize)>>,
                   <<"compute_unit_limit", required(val, "computeUnitLimit", u32_deserialize)>>,
                   <<"prioritization_type", optional(val, "prioritizationType",
                       PrioritizationType_deserialize)>>,
                   <<"dynamic_slippage_report", optional(val, "dynamicSlippageReport",
                       DynamicSlippageReport_deserialize)>>,
                   <<"simulation_error", optional(val, "simulationError",
                       UiSimulationError_deserialize)>> >>)

\* autobahn-swap-api-client: #[derive(Deserialize)] SwapResponse, the
\* transaction as Base64
AutobahnSwapResponse_deserialize(val) ==
    IF val.t # "obj" THEN Bad("invalid type")
    ELSE struct(<< <<"swap_transaction", required(val, "swapTransaction",
                       base64_serialize_deserialize_deserialize)>>,
                   <<"last_valid_block_height", required(val, "lastValidBlockHeight",
                       u64_deserialize)>>,
                   <<"priorization_fee_lamports", required(val, "priorizationFeeLamports",
                       u64_deserialize)>> >>)

\* jupiter-swap-api: #[derive(Deserialize)] SwapResponse
ApiSwapResponse_deserialize(val) ==
    IF val.t # "obj" THEN Bad("invalid type")
    ELSE struct(<< <<"swap_transaction", required(val, "swapTransaction",
                       base64_serialize_deserialize_deserialize)>>,
                   <<"last_valid_block_height", required(val, "lastValidBlockHeight",
                       u64_deserialize)>> >>)

\* the SwapResponse type of each crate
SwapResponse_of(crate, val) ==
    CASE crate = "jupiter" -> SwapResponse_deserialize(val)
      [] crate = "autobahn" -> AutobahnSwapResponse_deserialize(val)
      [] crate = "jupiter-swap-api" -> ApiSwapResponse_deserialize(val)

\* #[derive(Deserialize)] AccountMetaInternal, from an object
AccountMetaInternal_deserialize(val) ==
    IF val.t # "obj" THEN Bad("invalid type")
    ELSE struct(<< <<"pubkey", required(val, "pubkey", Pubkey_field)>>,
                   <<"is_signer", required(val, "isSigner", bool_deserialize)>>,
                   <<"is_writable", required(val, "isWritable", bool_deserialize)>> >>)

\* impl From<AccountMetaInternal> for AccountMeta
AccountMeta_from(val) ==
    [pubkey |-> val.pubkey, is_signer |-> val.is_signer, is_writable |-> val.is_writable]

\* #[derive(Deserialize)] InstructionInternal, from an object
InstructionInternal_deserialize(val) ==
    IF val.t # "obj" THEN Bad("invalid type")
    ELSE struct(<< <<"program_id", required(val, "programId", Pubkey_field)>>,
                   <<"accounts", required(val, "accounts", LAMBDA a : Vec_deserialize(a,
                       AccountMetaInternal_deserialize))>>,
                   <<"data", required(val, "data", base64_serialize_deserialize_deserialize)>> >>)

\* impl From<InstructionInternal> for Instruction
Instruction_from(val) ==
    [program_id |-> val.program_id,
     accounts |-> [i \in 1..Len(val.accounts) |-> AccountMeta_from(val.accounts[i])],
     data |-> val.data]

\* #[derive(Deserialize)] PubkeyInternal: a newtype around an address string
PubkeyInternal_deserialize(val) == Pubkey_field(val)

\* Vec<InstructionInternal> and Vec<PubkeyInternal>
InstructionInternals_deserialize(val) == Vec_deserialize(val, InstructionInternal_deserialize)

PubkeyInternals_deserialize(val) == Vec_deserialize(val, PubkeyInternal_deserialize)

\* #[derive(Deserialize)] SwapInstructionsResponseInternal, from an object
SwapInstructionsResponseInternal_deserialize(val) ==
    IF val.t # "obj" THEN Bad("invalid type")
    ELSE struct(<< <<"token_ledger_instruction", optional(val, "tokenLedgerInstruction",
                       InstructionInternal_deserialize)>>,
                   <<"compute_budget_instructions", required(val, "computeBudgetInstructions",
                       InstructionInternals_deserialize)>>,
                   <<"setup_instructions", required(val, "setupInstructions",
                       InstructionInternals_deserialize)>>,
                   <<"swap_instruction", required(val, "swapInstruction",
                       InstructionInternal_deserialize)>>,
                   <<"cleanup_instruction", optional(val, "cleanupInstruction",
                       InstructionInternal_deserialize)>>,
                   <<"other_instructions", required(val, "otherInstructions",
                       InstructionInternals_deserialize)>>,
                   <<"address_lookup_table_addresses", required(val,
                       "addressLookupTableAddresses", PubkeyInternals_deserialize)>>,
                   <<"prioritization_fee_lamports", required(val, "prioritizationFeeLamports",
                       u64_deserialize)>>,
                   <<"compute_unit_limit", required(val, "computeUnitLimit", u32_deserialize)>>,
                   <<"prioritization_type", optional(val, "prioritizationType",
                       PrioritizationType_deserialize)>>,
                   <<"dynamic_slippage_report", optional(val, "dynamicSlippageReport",
                       DynamicSlippageReport_deserialize)>>,
                   <<"simulation_error", optional(val, "simulationError",
                       UiSimulationError_deserialize)>> >>)

\* Option::map(Into::into) and into_iter().map(Into::into).collect() on instructions
Option_map_into(o) == IF o.some THEN Some(Instruction_from(o.v)) ELSE None

map_into(xs) == [i \in 1..Len(xs) |-> Instruction_from(xs[i])]

\* the conversion with the setup and the other instructions exchanged
SwapInstructionsResponse_from_internal_slots_exchanged(value) ==
    [token_ledger_instruction |-> Option_map_into(value.token_ledger_instruction),
     compute_budget_instructions |-> map_into(value.compute_budget_instructions),
     setup_instructions |-> map_into(value.other_instructions),
     swap_instruction |-> Instruction_from(value.swap_instruction),
     cleanup_instruction |-> Option_map_into(value.cleanup_instruction),
     other_instructions |-> map_into(value.setup_instructions),
     address_lookup_table_addresses |-> value.address_lookup_table_addresses,
     prioritization_fee_lamports |-> value.prioritization_fee_lamports,
     compute_unit_limit |-> value.compute_unit_limit,
     prioritization_type |-> value.prioritization_type,
     dynamic_slippage_report |-> value.dynamic_slippage_report,
     simulation_error |-> value.simulation_error]

\* impl From<SwapInstructionsResponseInternal> for SwapInstructionsResponse, field
\* by field; PubkeyInternal's `.0` is the address itself
SwapInstructionsResponse_from_internal(value) ==
    [token_ledger_instruction |-> Option_map_into(value.token_ledger_instruction),
     compute_budget_instructions |-> map_into(value.compute_budget_instructions),
     setup_instructions |-> map_into(value.setup_instructions),
     swap_instruction |-> Instruction_from(value.swap_instruction),
     cleanup_instruction |-> Option_map_into(value.cleanup_instruction),
     other_instructions |-> map_into(value.other_instructions),
     address_lookup_table_addresses |-> value.address_lookup_table_addresses,
     prioritization_fee_lamports |-> value.prioritization_fee_lamports,
     compute_unit_limit |-> value.compute_unit_limit,
     prioritization_type |-> value.prioritization_type,
     dynamic_slippage_report |-> value.dynamic_slippage_report,
     simulation_error |-> value.simulation_error]

\* jupiter-swap-api: impl From<Instruction> for SerializableInstruction; each
\* account meta is wrapped in SerializableAccountMeta
SerializableInstruction_from(value) ==
    [program_id |-> value.program_id,
     accounts |-> [i \in 1..Len(value.accounts) |-> [meta |-> value.accounts[i]]],
     data |-> value.data]

\* jupiter-swap-api: #[derive(Serialize)] #[serde(remote = "AccountMeta")]
\* AccountMetaResponse, through the newtype SerializableAccountMeta
SerializableAccountMeta_serialize(a) ==
    JObj(<< <<"pubkey", field_as_string_serialize("Pubkey", a.meta.pubkey)>>,
            <<"isSigner", JBool(a.meta.is_signer)>>,
            <<"isWritable", JBool(a.meta.is_writable)>> >>)

\* Serialize for Vec<u8>: a sequence of numbers
Vec_u8_serialize(bytes) == JArr([i \in 1..Len(bytes) |-> JU64(u64_of(bytes[i]))])

\* jupiter-swap-api: #[derive(Serialize)] SerializableInstruction; `data` has
\* no `with` attribute
SerializableInstruction_serialize(ix) ==
    JObj(<< <<"programId", field_as_string_serialize("Pubkey", ix.program_id)>>,
            <<"accounts", JArr([i \in 1..Len(ix.accounts) |->
                                  SerializableAccountMeta_serialize(ix.accounts[i])])>>,
            <<"data", Vec_u8_serialize(ix.data)>> >>)

\* serde_helpers: #[derive(Deserialize)] AccountMetaHelper, from an object
AccountMetaHelper_deserialize(val) ==
    IF val.t # "obj" THEN Bad("invalid type")
    ELSE struct(<< <<"pubkey", required(val, "pubkey", Pubkey_field)>>,
                   <<"is_signer", required(val, "isSigner", bool_deserialize)>>,
                   <<"is_writable", required(val, "isWritable", bool_deserialize)>> >>)

\* serde_helpers: #[derive(Deserialize)] InstructionHelper, from an object
InstructionHelper_deserialize(val) ==
    IF val.t # "obj" THEN Bad("invalid type")
    ELSE struct(<< <<"program_id", required(val, "programId", Pubkey_field)>>,
                   <<"accounts", required(val, "accounts", LAMBDA a : Vec_deserialize(a,
                       AccountMetaHelper_deserialize))>>,
                   <<"data", required(val, "data", field_as_base64_deserialize)>> >>)

\* serde_helpers: impl From<InstructionHelper> for Instruction
Instruction_from_helper(helper) ==
    [program_id |-> helper.program_id,
     accounts |-> [i \in 1..Len(helper.accounts) |->
                      [pubkey |-> helper.accounts[i].pubkey,
                       is_signer |-> helper.accounts[i].is_signer,
                       is_writable |-> helper.accounts[i].is_writable]],
     data |-> helper.data]

\* serde_helpers::field_as_instruction::deserialize
field_as_instruction_deserialize(val) ==
    IF InstructionHelper_deserialize(val).ok
    THEN Good(Instruction_from_helper(InstructionHelper_deserialize(val).v))
    ELSE InstructionHelper_deserialize(val)

\* autobahn: #[derive(Deserialize)] AccountMeta, the flags optional
AutobahnAccountMeta_deserialize(val) ==
    IF val.t # "obj" THEN Bad("invalid type")
    ELSE struct(<< <<"pubkey", required(val, "pubkey", String_deserialize)>>,
                   <<"is_signer", optional(val, "isSigner", bool_deserialize)>>,
                   <<"is_writable", optional(val, "isWritable", bool_deserialize)>> >>)

\* autobahn: #[derive(Deserialize)] InstructionResponse
InstructionResponse_deserialize(val) ==
    IF val.t # "obj" THEN Bad("invalid type")
    ELSE struct(<< <<"program_id", required(val, "programId", String_deserialize)>>,
                   <<"data", optional(val, "data", String_deserialize)>>,
                   <<"accounts", optional(val, "accounts", LAMBDA a : Vec_deserialize(a,
                       AutobahnAccountMeta_deserialize))>> >>)

from_ix_without_flags(instruction) ==
    Good([program_id |-> <<pubkey_to_string(instruction.program_id)>>,
          data |-> Some(base64_encode(instruction.data)),
          accounts |-> Some([i \in 1..Len(instruction.accounts) |->
                        [pubkey |-> <<pubkey_to_string(instruction.accounts[i].pubkey)>>,
                         is_signer |-> None,
                         is_writable |-> None]])])

\* autobahn: InstructionResponse::from_ix
from_ix(instruction) ==
    Good([program_id |-> <<pubkey_to_string(instruction.program_id)>>,
          data |-> Some(base64_encode(instruction.data)),
          accounts |-> Some([i \in 1..Len(instruction.accounts) |->
                        [pubkey |-> <<pubkey_to_string(instruction.accounts[i].pubkey)>>,
                         is_signer |-> Some(instruction.accounts[i].is_signer),
                         is_writable |-> Some(instruction.accounts[i].is_writable)]])])

\* Option::unwrap_or
unwrap_or(o, default) == IF o.some THEN o.v ELSE default

\* autobahn: impl TryFrom<&AccountMeta> for solana_sdk::instruction::AccountMeta
AccountMeta_try_from(m) ==
    struct(<< <<"pubkey", Pubkey_from_str(m.pubkey)>>,
              <<"is_signer", Good(unwrap_or(m.is_signer, FALSE))>>,
              <<"is_writable", Good(unwrap_or(m.is_writable, FALSE))>> >>)

\* the conversion leaving out the accounts whose pubkey does not parse
Instruction_try_from_skipping_invalid(m) ==
    struct(<< <<"program_id", Pubkey_from_str(m.program_id)>>,
              <<"data", IF m.data.some
                        THEN map_err(base64_decode(m.data.v), "Base64 decode error")
                        ELSE Good(<<>>)>>,
              <<"accounts", IF m.accounts.some
                            THEN collect(SelectSeq(
                                     [i \in 1..Len(m.accounts.v) |->
                                         AccountMeta_try_from(m.accounts.v[i])],
                                     LAMBDA r : r.ok))
                            ELSE Good(<<>>)>> >>)

\* autobahn: impl TryFrom<&InstructionResponse> for Instruction
Instruction_try_from(m) ==
    struct(<< <<"program_id", Pubkey_from_str(m.program_id)>>,
              <<"data", IF m.data.some
                        THEN map_err(base64_decode(m.data.v), "Base64 decode error")
                        ELSE Good(<<>>)>>,
              <<"accounts", IF m.accounts.some
                            THEN collect([i \in 1..Len(m.accounts.v) |->
                                             AccountMeta_try_from(m.accounts.v[i])])
                            ELSE Good(<<>>)>> >>)

\* autobahn: InstructionResponse::to_ix
to_ix(m) == Instruction_try_from(m)

-----------------------------------------------------------------------------
(* lib.rs: responses, errors and the status / body classification *)

NoValue == [type |-> "none"]

NoResult == [tag |-> "none", kind |-> "", inner |-> "", status |-> 0, body |-> "",
             value |-> NoValue]

Ok(v) == [tag |-> "Ok", kind |-> "", inner |-> "", status |-> 0, body |-> "", value |-> v]

\* ClientError::RequestFailed { status, body }
RequestFailed(status, body) ==
    [tag |-> "Err", kind |-> "RequestFailed", inner |-> "", status |-> status,
     body |-> body, value |-> NoValue]

\* ClientError::DeserializationError(reqwest::Error); inner is the kind of the
\* wrapped reqwest error: "Request" (send), "Body" (body read), "Decode" (parse)
DeserializationError(inner) ==
    [tag |-> "Err", kind |-> "DeserializationError", inner |-> inner, status |-> 0,
     body |-> "", value |-> NoValue]

\* anyhow::Error of get_version
AnyhowError(inner) ==
    [tag |-> "Err", kind |-> "anyhow", inner |-> inner, status |-> 0, body |-> "",
     value |-> NoValue]

NoResp == [kind |-> "none", status |-> 0, body |-> "", readable |-> FALSE]

\* send() failed before any response was obtained
TransportError == [kind |-> "error", status |-> 0, body |-> "", readable |-> FALSE]

\* a middleware returned Err(Error::Middleware(_))
MiddlewareError == [kind |-> "mw_error", status |-> 0, body |-> "", readable |-> FALSE]

Response(status, body, readable) ==
    [kind |-> "response", status |-> status, body |-> body, readable |-> readable]

\* bodies a service answers with: the JSON of a quote, of a swap, of the swap
\* instructions, a plain-text error page, nothing
QuoteDocument ==
    QuoteResponse_serialize(CHOOSE q \in QuoteResponses : q.swap_mode = "ExactIn")

QuoteBody == json_text(QuoteDocument)

SwapDocument == JObj(<<
    <<"swapTransaction", JStr(<<"Q", "Q", "=", "=">>)>>,
    <<"lastValidBlockHeight", JU64(u64_of(100))>>,
    <<"prioritizationFeeLamports", JU64(u64_of(0))>>,
    <<"priorizationFeeLamports", JU64(u64_of(0))>>,
    <<"computeUnitLimit", JU64(u64_of(1400000))>> >>)

SwapBody == json_text(SwapDocument)

SwapInstructionsBody == json_object(<<
    <<"computeBudgetInstructions", "[]">>,
    <<"setupInstructions", "[]">>,
    <<"swapInstruction", json_object(<<
        <<"programId", json_string(pubkey_to_string("TEST_WALLET"))>>,
        <<"accounts", "[]">>,
        <<"data", json_string("QQ==")>> >>)>>,
    <<"otherInstructions", "[]">>,
    <<"addressLookupTableAddresses", "[]">>,
    <<"prioritizationFeeLamports", "0">>,
    <<"computeUnitLimit", "1400000">> >>)

Bodies == {"", "Bad Gateway", QuoteBody, SwapBody, SwapInstructionsBody}

Statuses == {200, 299, 300, 404, 500}

Responses == {Response(st, b, rd) : st \in Statuses, b \in Bodies, rd \in BOOLEAN}

\* StatusCode::is_success
is_success_off_by_one(status) == 200 <= status /\ status < 299

is_success(status) == 200 <= status /\ status < 300

\* Response::text(): the body text, or an error when the body cannot be read
text(response) ==
    IF response.readable THEN [ok |-> TRUE, v |-> response.body]
    ELSE [ok |-> FALSE, v |-> ""]

\* Result::unwrap_or_default on a Result<String, _>
unwrap_or_default(r) == IF r.ok THEN r.v ELSE ""

\* the JSON documents among the bodies
Documents == {QuoteDocument, SwapDocument}

\* serde_json reading the body text: the document it is the text of
parse_json(body) ==
    IF \E d \in Documents : json_text(d) = body
    THEN Good(CHOOSE d \in Documents : json_text(d) = body)
    ELSE Bad("syntax")

\* the response type of swap in each crate
SwapResponse_type(c) ==
    IF c.crate = "jupiter" THEN "SwapResponse" ELSE "autobahn::SwapResponse"

\* the response types decoded from a JSON document
DocumentTypes == {"QuoteResponse", "SwapResponse", "autobahn::SwapResponse"}

\* serde_json::from_value::<T> of a document
from_value(T, d) ==
    CASE T = "QuoteResponse" -> QuoteResponse_deserialize(d)
      [] T = "SwapResponse" -> SwapResponse_deserialize(d)
      [] T = "autobahn::SwapResponse" -> AutobahnSwapResponse_deserialize(d)

\* what each response type decodes each document to
Decoded == [T \in DocumentTypes |-> [d \in Documents |-> from_value(T, d)]]

\* serde_json::from_value::<T> of a parsed body
from_parsed(T, parsed) == IF parsed.ok THEN Decoded[T][parsed.v] ELSE parsed

\* the decoded value tagged with its type
typed(T, r) ==
    IF r.ok THEN [ok |-> TRUE, v |-> [type |-> T, data |-> r.v]]
    ELSE [ok |-> FALSE, v |-> NoValue]

\* serde_json on the body bytes for the response type T
from_json(T, body) ==
    IF T \in DocumentTypes THEN typed(T, from_parsed(T, parse_json(body)))
    ELSE IF body = SwapInstructionsBody
         THEN [ok |-> TRUE, v |-> [type |-> T, swap_instruction_data |-> "QQ=="]]
         ELSE [ok |-> FALSE, v |-> NoValue]

\* reqwest's Decode error around a serde_json failure
decode_error(parsed) ==
    [ok |-> parsed.ok, v |-> parsed.v, inner |-> IF parsed.ok THEN "" ELSE "Decode"]

\* Response::json::<T>(): read the whole body, then parse it
json(T, response) ==
    IF ~response.readable THEN [ok |-> FALSE, v |-> NoValue, inner |-> "Body"]
    ELSE decode_error(from_json(T, response.body))

\* .map_err(Into::into) on the result of json()
map_err_into(parsed) ==
    IF parsed.ok THEN Ok(parsed.v) ELSE DeserializationError(parsed.inner)

check_status_code_and_deserialize_any_status(T, response) ==
    map_err_into(json(T, response))

check_is_success_client_errors_only(response) ==
    IF response.status >= 400
    THEN [ok |-> FALSE,
          err |-> RequestFailed(response.status, unwrap_or_default(text(response)))]
    ELSE [ok |-> TRUE, err |-> NoResult]

\* async fn check_is_success(response)
check_is_success(response) ==
    IF ~is_success(response.status)
    THEN [ok |-> FALSE,
          err |-> RequestFailed(response.status, unwrap_or_default(text(response)))]
    ELSE [ok |-> TRUE, err |-> NoResult]

\* async fn check_status_code_and_deserialize::<T>(response)
check_status_code_and_deserialize(T, response) ==
    IF ~check_is_success(response).ok THEN check_is_success(response).err
    ELSE map_err_into(json(T, response))

ClientError_from_losing_kind(send_error) == DeserializationError("Decode")

\* `.send().await?` in a fn returning Result<_, ClientError>: #[from] reqwest::Error
ClientError_from(send_error) == DeserializationError("Request")

\* impl From<SwapInstructionsResponseInternal> for SwapInstructionsResponse
SwapInstructionsResponse_from(res) ==
    IF res.tag = "Ok"
    THEN Ok([res.value EXCEPT !.type = "SwapInstructionsResponse"])
    ELSE res

-----------------------------------------------------------------------------
(* lib.rs: construction of the client *)

BasePath == "https://api.jup.ag/v6"

\* the middlewares a caller may register, by identity
MiddlewareIds == 1..MaxMiddlewares

\* the middleware lists a caller passes: no middleware twice
MiddlewareLists ==
    UNION {{ms \in [1..n -> MiddlewareIds] : \A i, j \in 1..n : ms[i] = ms[j] => i = j} :
             n \in 0..MaxMiddlewares}

\* ClientBuilder::with_arc pushes the middleware behind those already registered
with_arc(stack, middleware) == Append(stack, middleware)

RECURSIVE fold_with_arc_reversed(_, _)
fold_with_arc_reversed(stack, middlewares) ==
    IF middlewares = <<>> THEN stack
    ELSE fold_with_arc_reversed(<<Head(middlewares)>> \o stack, Tail(middlewares))

\* middlewares.into_iter().fold(ClientBuilder::new(..), |b, m| b.with_arc(m))
RECURSIVE fold_with_arc(_, _)
fold_with_arc(stack, middlewares) ==
    IF middlewares = <<>> THEN stack
    ELSE fold_with_arc(with_arc(stack, Head(middlewares)), Tail(middlewares))

\* JupiterSwapApiClient::new, in either crate: a client without middlewares
JupiterSwapApiClient_new(crate, base_path) ==
    [crate |-> crate, base_path |-> base_path, middlewares |-> <<>>]

\* JupiterSwapApiClient::new_with_middlewares
new_with_middlewares(base_path, middlewares) ==
    [crate |-> "jupiter", base_path |-> base_path,
     middlewares |-> fold_with_arc(<<>>, middlewares)]

Constructions ==
    {[crate |-> c, fn |-> "new", middlewares |-> <<>>] : c \in {"jupiter", "autobahn"}}
    \cup {[crate |-> "jupiter", fn |-> "new_with_middlewares", middlewares |-> ms] :
            ms \in MiddlewareLists}

construct(k) ==
    IF k.fn = "new" THEN JupiterSwapApiClient_new(k.crate, BasePath)
    ELSE new_with_middlewares(BasePath, k.middlewares)

-----------------------------------------------------------------------------
(* lib.rs: the requests the handlers build, and what they do with the answer *)

\* the client a request is built on: the client's own one in autobahn, a fresh
\* reqwest Client in jupiter's quote / swap / swap_instructions
sender_of(c) == IF c.crate = "jupiter" THEN "Client::new()" ELSE "self.client"

\* quote: GET {base}/quote with the internal request and the extra args as query
quote_request(c, quote_request_, extras) ==
    [method |-> "GET", url |-> c.base_path \o "/quote",
     query |-> InternalQuoteRequest_query(InternalQuoteRequest_from(quote_request_))
               \o extras,
     body |-> <<>>, via |-> sender_of(c)]

\* swap: POST {base}/swap with the extra args as query and the request as JSON
swap_request(c, swap_request_, extras) ==
    [method |-> "POST", url |-> c.base_path \o "/swap", query |-> extras,
     body |-> SwapRequest_json_members(c.crate, swap_request_), via |-> sender_of(c)]

swap_instructions_request_nested_config(c, swap_request_) ==
    [method |-> "POST", url |-> c.base_path \o "/swap-instructions", query |-> <<>>,
     body |-> << <<"userPublicKey", pubkey_json(swap_request_.user_public_key)>>,
                 <<"quoteResponse", QuoteResponse_json(swap_request_.quote_response)>>,
                 <<"config", IF c.crate = "jupiter"
                             THEN json_object(TransactionConfig_members(swap_request_.config))
                             ELSE "null">> >>,
     via |-> sender_of(c)]

\* swap_instructions: POST {base}/swap-instructions with the request as JSON
swap_instructions_request(c, swap_request_) ==
    [method |-> "POST", url |-> c.base_path \o "/swap-instructions", query |-> <<>>,
     body |-> SwapRequest_json_members(c.crate, swap_request_), via |-> sender_of(c)]

\* get_version: GET {base}/version on self.client
get_version_request(c) ==
    [method |-> "GET", url |-> c.base_path \o "/version", query |-> <<>>,
     body |-> <<>>, via |-> "self.client"]

NoWire == [method |-> "", url |-> "", query |-> <<>>, body |-> <<>>, via |-> ""]

Return(res) == [next |-> "return", result |-> res]

SendAgain == [next |-> "send", result |-> NoResult]

Sleep == [next |-> "sleep", result |-> NoResult]

\* quote decoding whatever response the first call in flight was given
quote_after_send_shared_buffer(c, r) ==
    Return(IF r.kind = "error" THEN ClientError_from(r)
           ELSE check_status_code_and_deserialize("QuoteResponse", resp[1]))

\* quote, after `.send().await`
quote_after_send(c, r) ==
    Return(IF r.kind = "error" THEN ClientError_from(r)
           ELSE check_status_code_and_deserialize("QuoteResponse", r))

swap_after_send_resending(c, r) ==
    IF r.kind = "error" \/ ~is_success(r.status) THEN SendAgain
    ELSE Return(check_status_code_and_deserialize(SwapResponse_type(c), r))

\* swap, after `.send().await`
swap_after_send(c, r) ==
    Return(IF r.kind = "error" THEN ClientError_from(r)
           ELSE check_status_code_and_deserialize(SwapResponse_type(c), r))

\* swap_instructions, after `.send().await`
swap_instructions_after_send(c, r) ==
    Return(IF r.kind = "error" THEN ClientError_from(r)
           ELSE IF c.crate = "jupiter"
           THEN SwapInstructionsResponse_from(
                    check_status_code_and_deserialize("SwapInstructionsResponseInternal", r))
           ELSE check_status_code_and_deserialize("SwapIxResponse", r))

\* get_version classifying the status as the other calls do
get_version_after_send_checking_status(c, r) ==
    Return(IF r.kind = "error" THEN AnyhowError("Request")
           ELSE IF r.kind = "mw_error" THEN AnyhowError("Middleware")
           ELSE IF ~is_success(r.status) THEN check_is_success(r).err
           ELSE IF text(r).ok THEN Ok([type |-> "String", data |-> text(r).v])
           ELSE AnyhowError("Body"))

\* get_version, after `.send().await`: no status check, the body text or an error
get_version_after_send(c, r) ==
    Return(IF r.kind = "error" THEN AnyhowError("Request")
           ELSE IF r.kind = "mw_error" THEN AnyhowError("Middleware")
           ELSE LET t == text(r)
                IN  IF t.ok THEN Ok([type |-> "String", data |-> t.v])
                    ELSE AnyhowError("Body"))

-----------------------------------------------------------------------------
(* The retry loop around quote (retry_quote) *)

\* a retry is attempted on a status failure and on a transport failure
retryable(res) ==
    \/ res.kind = "RequestFailed"
    \/ res.kind = "DeserializationError" /\ res.inner = "Request"

\* after attempt n ended with res: return a success at once, sleep and go on
\* while attempts remain, else return the last attempt's error
retry_quote_after_attempt(res, n) ==
    IF res.tag = "Ok" THEN Return(res)
    ELSE IF retryable(res) /\ n < MaxAttempts THEN Sleep
    ELSE Return(res)

-----------------------------------------------------------------------------
(* State machine *)

EnterEvent(m) == [ev |-> "enter", m |-> m]

ExitEvent(m, v) == [ev |-> "exit", m |-> m, val |-> v]

SendEvent == [ev |-> "send", m |-> 0]

\* what a middleware that does not call next.run may return
ShortCircuitValues == {MiddlewareError, Response(200, "cached", TRUE)}

PipelineOps == {"quote", "swap", "swap_instructions"}

Init ==
    /\ ctor \in Constructions
    /\ client = construct(ctor)
    /\ pc = "idle"
    /\ op = "none"
    /\ req = NoValue
    /\ wire = NoWire
    /\ resp = NoResp
    /\ mwpos = 0
    /\ trace = <<>>
    /\ sends = 0
    /\ result = NoResult
    /\ attempts = 0
    /\ clock = 0
    /\ sentAt = <<>>
    /\ allFailed = TRUE
    /\ succeededAt = 0

retryVars == <<attempts, clock, sentAt, allFailed, succeededAt>>

\* a handler builds request w for operation o and awaits send()
Start(o, r, w) ==
    /\ pc = "idle"
    /\ op' = o
    /\ req' = r
    /\ wire' = w
    /\ resp' = NoResp
    /\ result' = NoResult
    /\ IF w.via = "self.client" /\ client.middlewares # <<>>
       THEN pc' = "mw_out" /\ mwpos' = 1 /\ sends' = 0 /\ trace' = <<>>
       ELSE pc' = "transport" /\ mwpos' = 0 /\ sends' = 1 /\ trace' = <<SendEvent>>
    /\ UNCHANGED <<ctor, client>>

\* the handler goes on as its continuation k says
Continue(k) ==
    /\ CASE k.next = "return" ->
               /\ pc' = "done"
               /\ result' = k.result
               /\ UNCHANGED <<resp, sends, trace>>
         [] k.next = "send" ->
               /\ pc' = "transport"
               /\ resp' = NoResp
               /\ sends' = sends + 1
               /\ trace' = Append(trace, SendEvent)
               /\ UNCHANGED result
         [] k.next = "sleep" ->
               /\ pc' = "sleeping"
               /\ UNCHANGED <<resp, sends, trace, result>>
    /\ UNCHANGED <<ctor, client, op, req, wire, mwpos>>

quote ==
    \E q \in QuoteRequests : \E extras \in extra_args_queries(q.quote_args) :
        /\ Start("quote", q, quote_request(client, q, extras))
        /\ UNCHANGED retryVars

swap ==
    \E r \in SwapRequests(client.crate) : \E e \in ExtraArgs :
    \E extras \in extra_args_queries(e) :
        /\ Start("swap", r, swap_request(client, r, extras))
        /\ UNCHANGED retryVars

swap_instructions ==
    \E r \in SwapRequests(client.crate) :
        /\ Start("swap_instructions", r, swap_instructions_request(client, r))
        /\ UNCHANGED retryVars

get_version ==
    /\ client.crate = "jupiter"
    /\ Start("get_version", NoValue, get_version_request(client))
    /\ UNCHANGED retryVars

\* the middleware holding the request calls next.run(req, extensions)
MiddlewareForward ==
    /\ pc = "mw_out"
    /\ trace' = IF mwpos = Len(client.middlewares)
                THEN trace \o <<EnterEvent(client.middlewares[mwpos]), SendEvent>>
                ELSE Append(trace, EnterEvent(client.middlewares[mwpos]))
    /\ IF mwpos = Len(client.middlewares)
       THEN pc' = "transport" /\ sends' = sends + 1 /\ mwpos' = mwpos
       ELSE pc' = "mw_out" /\ sends' = sends /\ mwpos' = mwpos + 1
    /\ UNCHANGED <<ctor, client, op, req, wire, resp, result>>
    /\ UNCHANGED retryVars

\* the middleware holding the request returns without calling next.run
MiddlewareShortCircuit ==
    /\ pc = "mw_out"
    /\ \E v \in ShortCircuitValues :
        /\ resp' = v
        /\ trace' = trace \o <<EnterEvent(client.middlewares[mwpos]),
                               ExitEvent(client.middlewares[mwpos], v)>>
    /\ mwpos' = mwpos - 1
    /\ pc' = IF mwpos = 1 THEN "received" ELSE "mw_back"
    /\ UNCHANGED <<ctor, client, op, req, wire, sends, result>>
    /\ UNCHANGED retryVars

\* next.run returned to the middleware at mwpos, which returns the same value
MiddlewareReturn ==
    /\ pc = "mw_back"
    /\ trace' = Append(trace, ExitEvent(client.middlewares[mwpos], resp))
    /\ mwpos' = mwpos - 1
    /\ pc' = IF mwpos = 1 THEN "received" ELSE "mw_back"
    /\ UNCHANGED <<ctor, client, op, req, wire, resp, sends, result>>
    /\ UNCHANGED retryVars

\* the transport's answer r reaches whoever awaits it
Answer(r) ==
    /\ pc = "transport"
    /\ resp' = r
    /\ pc' = IF mwpos > 0 THEN "mw_back" ELSE "received"
    /\ allFailed' = (allFailed /\ (r.kind = "error" \/ r.status \notin 200..299))
    /\ succeededAt' = IF /\ succeededAt = 0
                         /\ r.kind = "response" /\ r.status \in 200..299
                         /\ r.readable /\ r.body = QuoteBody
                      THEN attempts ELSE succeededAt
    /\ UNCHANGED <<ctor, client, op, req, wire, mwpos, trace, sends, result,
                   attempts, clock, sentAt>>

\* the service answers: any status, any body, the body readable or not
TransportRespond ==
    /\ pc = "transport"
    /\ \E r \in Responses : Answer(r)

\* the connection fails before any response is obtained (DNS, TLS, timeout)
TransportFail ==
    /\ pc = "transport"
    /\ Answer(TransportError)

quote_await ==
    /\ pc = "received" /\ op = "quote"
    /\ Continue(quote_after_send(client, resp))
    /\ UNCHANGED retryVars

swap_await ==
    /\ pc = "received" /\ op = "swap"
    /\ Continue(swap_after_send(client, resp))
    /\ UNCHANGED retryVars

swap_instructions_await ==
    /\ pc = "received" /\ op = "swap_instructions"
    /\ Continue(swap_instructions_after_send(client, resp))
    /\ UNCHANGED retryVars

get_version_await ==
    /\ pc = "received" /\ op = "get_version"
    /\ Continue(get_version_after_send(client, resp))
    /\ UNCHANGED retryVars

\* the caller has its value; the client is ready for the next call
Finish ==
    /\ pc = "done"
    /\ pc' = "idle"
    /\ op' = "none"
    /\ req' = NoValue
    /\ wire' = NoWire
    /\ resp' = NoResp
    /\ mwpos' = 0
    /\ trace' = <<>>
    /\ sends' = 0
    /\ result' = NoResult
    /\ attempts' = 0
    /\ clock' = 0
    /\ sentAt' = <<>>
    /\ allFailed' = TRUE
    /\ succeededAt' = 0
    /\ UNCHANGED <<ctor, client>>

Next ==
    \/ quote
    \/ swap
    \/ swap_instructions
    \/ get_version
    \/ MiddlewareForward
    \/ MiddlewareShortCircuit
    \/ MiddlewareReturn
    \/ TransportRespond
    \/ TransportFail
    \/ quote_await
    \/ swap_await
    \/ swap_instructions_await
    \/ get_version_await
    \/ Finish

Spec == Init /\ [][Next]_vars

-----------------------------------------------------------------------------
(* The retry loop as a state machine *)

retry_quote ==
    \E q \in QuoteRequests : \E extras \in extra_args_queries(q.quote_args) :
        /\ Start("retry_quote", q, quote_request(client, q, extras))
        /\ attempts' = 1
        /\ sentAt' = <<clock>>
        /\ UNCHANGED <<clock, allFailed, succeededAt>>

retry_quote_await ==
    /\ pc = "received" /\ op = "retry_quote"
    /\ Continue(retry_quote_after_attempt(quote_after_send(client, resp).result, attempts))
    /\ UNCHANGED retryVars

\* the delay has passed (at least RetryDelay): the next attempt is sent
retry_quote_wake ==
    /\ pc = "sleeping"
    /\ \E j \in 0..MaxJitter :
        /\ clock' = clock + RetryDelay + j
        /\ sentAt' = Append(sentAt, clock + RetryDelay + j)
    /\ attempts' = attempts + 1
    /\ pc' = "transport"
    /\ resp' = NoResp
    /\ sends' = sends + 1
    /\ trace' = Append(trace, SendEvent)
    /\ UNCHANGED <<ctor, client, op, req, wire, mwpos, result, allFailed, succeededAt>>

InitRetry == Init /\ ctor.fn = "new"

NextRetry ==
    \/ retry_quote
    \/ TransportRespond
    \/ TransportFail
    \/ retry_quote_await
    \/ retry_quote_wake
    \/ Finish

SpecRetry == InitRetry /\ [][NextRetry]_vars

-----------------------------------------------------------------------------
(* Properties *)

\* the outcome of the pipeline's state machine that a returned value stands for
Outcome(res) ==
    CASE res.tag = "Ok" -> "Succeeded"
      [] res.kind = "RequestFailed" -> "FailedStatus"
      [] res.kind = "DeserializationError" /\ res.inner = "Request" -> "FailedTransport"
      [] res.kind = "DeserializationError" /\ res.inner \in {"Body", "Decode"} ->
            "FailedDecode"
      [] OTHER -> "none"

\* the body that decodes into the response type of operation o
ExpectedBody(o) ==
    CASE o \in {"quote", "retry_quote"} -> QuoteBody
      [] o = "swap" -> SwapBody
      [] o = "swap_instructions" -> SwapInstructionsBody

StatusFailed == pc = "done" /\ op \in PipelineOps /\ resp.kind = "response"
                /\ resp.status \notin 200..299

\* C1 as stated: a response whose status is outside the success range makes
\* quote, swap and swap_instructions return RequestFailed with exactly that
\* status and exactly the body text of the response, whatever the body.
C1_StatusFailureCarriesBodyVerbatim ==
    StatusFailed => result = RequestFailed(resp.status, resp.body)

\* C1 amended: a response whose status is outside the success range makes quote,
\* swap and swap_instructions return RequestFailed (never a deserialization
\* error) with exactly that status, and with the body text when the body can be
\* read, the empty string when reading the body fails.
C1_StatusFailureCarriesStatusAndReadBody ==
    StatusFailed =>
        result = RequestFailed(resp.status, IF resp.readable THEN resp.body ELSE "")

C1_Witness ==
    /\ pc = "done" /\ op = "swap_instructions"
    /\ resp = Response(500, "Bad Gateway", TRUE)
    /\ result = RequestFailed(500, "Bad Gateway")

\* C2: a call of quote, swap or swap_instructions that was sent ends in exactly
\* one of Succeeded, FailedStatus, FailedTransport, FailedDecode; in Succeeded
\* exactly when the status is a success and the body decodes into the expected
\* type, in FailedDecode exactly when the status is a success and it does not.
C2_OneOutcomePerCall ==
    (pc = "done" /\ op \in PipelineOps) =>
        LET o == Outcome(result)
            answered == resp.kind = "response"
            success == answered /\ resp.status \in 200..299
            decodes == resp.readable /\ resp.body = ExpectedBody(op)
        IN  /\ sends = 1
            /\ o \in {"Succeeded", "FailedStatus", "FailedTransport", "FailedDecode"}
            /\ (o = "Succeeded") <=> (success /\ decodes)
            /\ (o = "FailedDecode") <=> (success /\ ~decodes)
            /\ (o = "FailedStatus") <=> (answered /\ ~success)
            /\ (o = "FailedTransport") <=> (resp.kind = "error")

C2_Witness ==
    /\ pc = "done" /\ op = "swap"
    /\ resp = Response(299, QuoteBody, TRUE)
    /\ Outcome(result) = "FailedDecode"

\* C3: a send that fails before any response is obtained is reported with an
\* error kind other than the kind reported when a success body fails to decode.
C3_TransportErrorKindDistinctFromDecode ==
    (pc = "done" /\ op \in PipelineOps /\ resp.kind = "error") =>
        result.kind #
            check_status_code_and_deserialize("QuoteResponse",
                                              Response(200, "Bad Gateway", TRUE)).kind

\* C4: on a client built by new_with_middlewares, a request of quote, swap or
\* swap_instructions has entered every registered middleware by the time the
\* transport receives it.
C4_PipelineRequestsPassMiddlewares ==
    (op \in PipelineOps /\ ctor.fn = "new_with_middlewares" /\ sends > 0) =>
        \A i \in 1..Len(ctor.middlewares) :
            \E j \in 1..Len(trace) : trace[j] = EnterEvent(ctor.middlewares[i])

\* C5: a request sent through the middleware chain of a client built from
\* [m1..mn] enters m1, m2, ... in that order before the transport, and the answer
\* leaves them in the reverse order; if mi returns without calling the next one,
\* no later middleware and no transport send runs, and what mi returned is what
\* every earlier middleware and the caller get.
C5_MiddlewareOrderAndShortCircuit ==
    (pc = "done" /\ op = "get_version") =>
        LET ms == ctor.middlewares
            enters == SelectSeq(trace, LAMBDA e : e.ev = "enter")
            exits == SelectSeq(trace, LAMBDA e : e.ev = "exit")
            sent == \E j \in 1..Len(trace) : trace[j].ev = "send"
            k == Len(enters)
        IN  /\ k <= Len(ms)
            /\ \A i \in 1..k : enters[i].m = ms[i]
            /\ Len(exits) = k
            /\ \A i \in 1..k : exits[i].m = ms[k + 1 - i]
            /\ trace = enters \o (IF sent THEN <<SendEvent>> ELSE <<>>) \o exits
            /\ sent => k = Len(ms)
            /\ sends = IF sent THEN 1 ELSE 0
            /\ ~sent => resp \in ShortCircuitValues
            /\ \A i \in 1..k : exits[i].val = resp

C5_Witness ==
    /\ pc = "done" /\ op = "get_version"
    /\ ctor.middlewares = <<2, 1>>
    /\ trace = <<EnterEvent(2), EnterEvent(1), ExitEvent(1, MiddlewareError),
                 ExitEvent(2, MiddlewareError)>>
    /\ sends = 0
    /\ result = AnyhowError("Middleware")

\* C6: when every attempt of retry_quote is answered by a status failure or a
\* transport failure, it makes exactly MaxAttempts attempts, at least RetryDelay
\* apart, and returns the error of the last attempt.
C6_RetryExhaustion ==
    (pc = "done" /\ op = "retry_quote" /\ allFailed) =>
        /\ attempts = MaxAttempts
        /\ sends = MaxAttempts
        /\ Len(sentAt) = MaxAttempts
        /\ \A i \in 1..(Len(sentAt) - 1) : sentAt[i + 1] - sentAt[i] >= RetryDelay
        /\ result = IF resp.kind = "error" THEN DeserializationError("Request")
                    ELSE RequestFailed(resp.status,
                                       IF resp.readable THEN resp.body ELSE "")

C6_Witness ==
    /\ pc = "done" /\ op = "retry_quote" /\ allFailed
    /\ attempts = MaxAttempts
    /\ resp = Response(404, "Bad Gateway", TRUE)
    /\ result = RequestFailed(404, "Bad Gateway")

\* C7: in the retry loop the first attempt answered by a decodable success ends
\* the loop: no further attempt is sent, and the decoded value is returned.
C7_SuccessEndsRetryLoop ==
    (op = "retry_quote" /\ succeededAt # 0) =>
        /\ attempts = succeededAt
        /\ sends = succeededAt
        /\ pc \in {"mw_back", "received", "done"}
        /\ pc = "done" =>
              result = Ok([type |-> "QuoteResponse",
                           data |-> CHOOSE q \in QuoteResponses : q.swap_mode = "ExactIn"])

C7_Witness ==
    /\ pc = "done" /\ op = "retry_quote"
    /\ succeededAt = 2 /\ attempts = 2
    /\ result.tag = "Ok"

\* C8: one call of swap or swap_instructions hands at most one HTTP request to
\* the transport, whatever the outcome.
C8_SwapSendsAtMostOnce ==
    (op \in {"swap", "swap_instructions"}) =>
        /\ sends <= 1
        /\ Cardinality({j \in 1..Len(trace) : trace[j].ev = "send"}) <= 1
        /\ pc = "done" => sends = 1

C8_Witness ==
    /\ pc = "done" /\ op = "swap"
    /\ Outcome(result) = "FailedStatus"
    /\ sends = 1

\* the fields of QuoteRequest other than quote_args, with their wire names
QuoteRequestPlainFields ==
    { <<"input_mint", "inputMint">>, <<"output_mint", "outputMint">>,
      <<"amount", "amount">>, <<"slippage_bps", "slippageBps">>,
      <<"compute_auto_slippage", "computeAutoSlippage">> }

QuoteRequestOptionFields ==
    { <<"swap_mode", "swapMode">>, <<"auto_slippage", "autoSlippage">>,
      <<"max_auto_slippage_bps", "maxAutoSlippageBps">>,
      <<"auto_slippage_collision_usd_value", "autoSlippageCollisionUsdValue">>,
      <<"minimize_slippage", "minimizeSlippage">>,
      <<"platform_fee_bps", "platformFeeBps">>, <<"dexes", "dexes">>,
      <<"excluded_dexes", "excludedDexes">>,
      <<"only_direct_routes", "onlyDirectRoutes">>,
      <<"as_legacy_transaction", "asLegacyTransaction">>,
      <<"restrict_intermediate_tokens", "restrictIntermediateTokens">>,
      <<"max_accounts", "maxAccounts">>, <<"quote_type", "quoteType">>,
      <<"prefer_liquid_dexes", "preferLiquidDexes">>,
      <<"compute_unit_score", "computeUnitScore">>,
      <<"routing_constraints", "routingConstraints">>,
      <<"token_category_based_intermediate_tokens",
        "tokenCategoryBasedIntermediateTokens">> }

Keys(pairs) == {pairs[i][1] : i \in 1..Len(pairs)}

\* C9: the query of GET /quote has a parameter for every field of the caller's
\* QuoteRequest that is set, and every quote_args entry as a parameter.
C9_QueryCarriesEveryField ==
    (op = "quote" /\ pc # "idle") =>
        /\ \A f \in QuoteRequestPlainFields : f[2] \in Keys(wire.query)
        /\ \A f \in QuoteRequestOptionFields :
              req[f[1]].some => f[2] \in Keys(wire.query)
        /\ req.quote_args.some => req.quote_args.v \subseteq Range(wire.query)

TransactionConfigKeys ==
    { "wrapAndUnwrapSol", "allowOptimizedWrappedSolTokenAccount", "feeAccount",
      "destinationTokenAccount", "trackingAccount", "computeUnitPriceMicroLamports",
      "prioritizationFeeLamports", "dynamicComputeUnitLimit", "asLegacyTransaction",
      "useSharedAccounts", "useTokenLedger", "skipUserAccountsRpcCalls",
      "keyedUiAccounts", "programAuthorityId", "dynamicSlippage",
      "blockhashSlotsToExpiry", "correctLastValidBlockHeight" }

\* C10: the JSON body swap_instructions posts for a SwapRequest is the body swap
\* posts for it: the owner address, the quoteResponse and every TransactionConfig
\* field as members of the one top-level object, with no nested config object.
C10_SwapInstructionsBodyIsSwapBody ==
    (op = "swap_instructions" /\ pc # "idle") =>
        /\ wire.body = swap_request(client, req, <<>>).body
        /\ client.crate = "jupiter" =>
              /\ Keys(wire.body) = {"userPublicKey", "quoteResponse"}
                                   \cup TransactionConfigKeys
              /\ Len(wire.body) = 2 + Cardinality(TransactionConfigKeys)
              /\ <<"userPublicKey",
                   json_string(pubkey_to_string(req.user_public_key))>> \in Range(wire.body)
              /\ <<"quoteResponse", QuoteResponse_json(req.quote_response)>>
                    \in Range(wire.body)

C10_Witness ==
    /\ op = "swap_instructions" /\ pc = "transport"
    /\ client.crate = "jupiter"
    /\ req.config # TransactionConfig_default
    /\ <<"feeAccount", json_string(pubkey_to_string("TEST_WALLET"))>> \in Range(wire.body)

-----------------------------------------------------------------------------
(* The codecs as a state machine: a caller holds a value or a wire value,   *)
(* and one call encodes and / or decodes it                                 *)

\* the u64 amounts and fees callers hold: 0, 1, 1000, 2^32 - 1, 2^32,
\* 50_000_000_000, 2^64 - 1
U64Samples ==
    { u64_of(0), u64_of(1), u64_of(1000), u32_MAX, <<0, 0, 1, 0>>,
      <<29696, 42043, 11, 0>>, u64_MAX }

U32Samples == { u64_of(0), u64_of(3), u32_MAX }

PriorityLevels == {"Medium", "High", "VeryHigh"}

\* the PrioritizationFeeLamports values callers hold
PrioritizationFees ==
    { [tag |-> "Auto"], [tag |-> "Disabled"] }
    \cup { [tag |-> "Lamports", n |-> n] : n \in U64Samples }
    \cup { [tag |-> "AutoMultiplier", n |-> n] : n \in U32Samples }
    \cup { [tag |-> "JitoTipLamports", n |-> n] : n \in U64Samples }
    \cup { [tag |-> "PriorityLevelWithMaxLamports", priority_level |-> l,
            max_lamports |-> n, global |-> g] :
                l \in PriorityLevels, n \in U64Samples, g \in BOOLEAN }

\* the ComputeUnitPriceMicroLamports values callers hold
ComputeUnitPrices ==
    { [tag |-> "Auto"] } \cup { [tag |-> "MicroLamports", n |-> n] : n \in U64Samples }

\* wire values handed to the PrioritizationFeeLamports decoder: encodings of
\* values, and JSON of other shapes
FeeWireValues ==
    { PrioritizationFeeLamports_serialize(v) :
        v \in { f \in PrioritizationFees :
                  \/ f.tag \in {"Auto", "Disabled"}
                  \/ (f.tag = "Lamports" /\ f.n = u64_of(1000))
                  \/ (f.tag = "AutoMultiplier" /\ f.n = u64_of(3))
                  \/ (f.tag = "JitoTipLamports" /\ f.n = u64_of(1000))
                  \/ (f.tag = "PriorityLevelWithMaxLamports"
                        /\ f.max_lamports = u64_of(1)) } }
    \cup { JStr(<<"fast">>), JStr(<<"Auto">>), JStr(<<"">>), JStr(<<"autoMultiplier">>),
           JStr(<<"priorityLevelWithMaxLamports">>),
           JObj(<< <<"lamports", JU64(u64_of(5))>> >>),
           JObj(<< <<"auto", JNull>> >>),
           JObj(<< <<"disabled", JNull>> >>),
           JObj(<< <<"auto", JU64(u64_of(1))>> >>),
           JObj(<< <<"medium", JNull>> >>),
           JObj(<< <<"AutoMultiplier", JU64(u64_of(2))>> >>),
           JObj(<< <<"autoMultiplier", JU64(u64_of(2))>>,
                   <<"jitoTipLamports", JU64(u64_of(3))>> >>),
           JObj(<< <<"jitoTipLamports", JU64(u64_of(3))>>,
                   <<"priorityLevelWithMaxLamports",
                     JObj(<< <<"priorityLevel", JStr(<<"high">>)>>,
                             <<"maxLamports", JU64(u64_of(1))>> >>)>> >>),
           JObj(<<>>),
           JObj(<< <<"autoMultiplier", JU64(<<0, 0, 1, 0>>)>> >>),
           JObj(<< <<"autoMultiplier", JStr(<<"3">>)>> >>),
           JObj(<< <<"priorityLevelWithMaxLamports",
                     JObj(<< <<"priorityLevel", JStr(<<"high">>)>>,
                             <<"maxLamports", JU64(u64_of(7))>> >>)>> >>),
           JObj(<< <<"priorityLevelWithMaxLamports",
                     JObj(<< <<"priorityLevel", JStr(<<"extreme">>)>>,
                             <<"maxLamports", JU64(u64_of(7))>> >>)>> >>),
           JObj(<< <<"priorityLevelWithMaxLamports",
                     JObj(<< <<"maxLamports", JU64(u64_of(7))>> >>)>> >>),
           JI64(u64_of(1)), JI64(u64_of(1000)), JF64("1.5"), JF64("1e3"),
           JBool(TRUE), JBool(FALSE), JNull, JArr(<<>>),
           JArr(<< JStr(<<"auto">>) >>) }

\* byte values and the byte sequences callers hold
Bytes == {0, 65, 128, 255}

Blobs == UNION {[1..n -> Bytes] : n \in 0..MaxBlobLen}

\* sequences of at most n elements of S
SeqUpTo(S, n) == UNION {[1..k -> S] : k \in 0..n}

\* the domain instructions callers hold
AccountMetas ==
    { [pubkey |-> p, is_signer |-> sg, is_writable |-> w] :
        p \in {"TEST_WALLET", "USDC_MINT"}, sg \in BOOLEAN, w \in BOOLEAN }

Instructions ==
    { [program_id |-> p, accounts |-> a, data |-> d] :
        p \in {"NATIVE_MINT", "TEST_WALLET"},
        a \in SeqUpTo(AccountMetas, MaxAccounts),
        d \in {<<>>, <<65>>, <<255, 0>>, <<0, 128, 255>>} }

\* a flag of a wire account meta: left out, or a boolean
WireFlags == {None, Some(JBool(TRUE)), Some(JBool(FALSE))}

WireAccountMetas ==
    { JObj(value_fields(<< <<"pubkey", Some(JStr(<<pubkey_to_string("TEST_WALLET")>>))>>,
                           <<"isSigner", sg>>, <<"isWritable", w>> >>)) :
        sg \in WireFlags, w \in WireFlags }

\* wire instructions: a program id, account metas and a base64 payload
WireInstructions ==
    { JObj(<< <<"programId", JStr(<<pubkey_to_string("NATIVE_MINT")>>)>>,
              <<"accounts", JArr(a)>>,
              <<"data", JStr(d)>> >>) :
        a \in SeqUpTo(WireAccountMetas, MaxAccounts) \ {<<>>},
        d \in {<<"Q", "Q", "=", "=">>, <<>>} }

\* the decoders of a wire instruction
InstructionDecoders == {"InstructionInternal", "InstructionHelper", "InstructionResponse"}

\* bodies handed to the SwapResponse decoders
SwapResponseDocuments ==
    { JObj(<< <<"swapTransaction", tx>>, <<"lastValidBlockHeight", h>> >> \o extra) :
        tx \in { JStr(<<"Q", "Q", "=", "=">>), JStr(<<>>), JStr(<<"Q", "Q", "=">>),
                 JStr(<<"T", "W", "F", "u">>) },
        h \in { JU64(u64_of(100)), JU64(u64_MAX), JStr(<<"1", "0", "0">>) },
        extra \in { <<>>,
                    << <<"prioritizationFeeLamports", JU64(u64_of(5000))>> >>,
                    << <<"prioritizationFeeLamports", JU64(u64_of(5000))>>,
                       <<"computeUnitLimit", JU64(u64_of(1400000))>> >>,
                    << <<"priorizationFeeLamports", JU64(u64_of(5000))>> >>,
                    << <<"prioritizationFeeLamports", JU64(u64_of(5000))>>,
                       <<"computeUnitLimit", JU64(u64_of(1400000))>>,
                       <<"prioritizationType",
                         JObj(<< <<"jito", JObj(<< <<"lamports", JU64(u64_of(7))>> >>)>> >>)>>,
                       <<"dynamicSlippageReport", JNull>> >> } }

Crates == {"jupiter", "autobahn", "jupiter-swap-api"}

\* members a TransactionConfig object on the wire may carry
TransactionConfigWireMembers ==
    << <<"wrapAndUnwrapSol", JBool(FALSE)>>,
       <<"feeAccount", JStr(<<pubkey_to_string("TEST_WALLET")>>)>>,
       <<"computeUnitPriceMicroLamports", JU64(u64_of(25))>>,
       <<"prioritizationFeeLamports", JStr(<<"auto">>)>>,
       <<"useSharedAccounts", JBool(TRUE)>>,
       <<"asLegacyTransaction", JBool(TRUE)>> >>

TransactionConfigDocuments ==
    { JObj(SelectSeq(TransactionConfigWireMembers, LAMBDA m : m[1] \in keep)) :
        keep \in SUBSET {TransactionConfigWireMembers[i][1] :
                            i \in 1..Len(TransactionConfigWireMembers)} }

\* the QuoteResponse values whose amounts range over the samples
QuoteResponsesOfAmounts ==
    { [q EXCEPT !.in_amount = x, !.out_amount = y, !.other_amount_threshold = y] :
        q \in QuoteResponses, x \in U64Samples, y \in {u64_of(0), u64_MAX} }


\* an object with the value of one member replaced
with_member(val, k, x) ==
    JObj([i \in 1..Len(val.members) |->
            IF val.members[i][1] = k THEN <<k, x>> ELSE val.members[i]])

\* texts that are no decimal u64: empty, signed, fractional, spaced, hexadecimal,
\* with a letter, and beyond 2^64 - 1
MalformedAmounts ==
    { <<>>, <<"-", "1">>, <<"1", ".", "5">>, <<" ", "1">>, <<"1", " ">>,
      <<"0", "x", "1", "0">>, <<"1", "2", "a">>, <<"+">>,
      <<"1", "8", "4", "4", "6", "7", "4", "4", "0", "7", "3", "7", "0", "9", "5", "5",
        "1", "6", "1", "6">> }

\* texts that are no address: empty, too short, and a character outside base58
MalformedAddresses ==
    { <<"">>, <<"abc">>, <<"So1111111111111111111111111111111111111111O">>,
      <<"So111111111111111111111111111111111111111122">> }

\* texts that are no padded standard base64
MalformedBlobs ==
    { <<"Q">>, <<"Q", "Q">>, <<"Q", "Q", "=">>, <<"Q", "Q", "=", "=", "Q", "Q", "=", "=">>,
      <<"Q", "!", "=", "=">>, <<"Q", "R", "=", "=">>, <<"=", "=", "=", "=">>,
      <<"Q", "Q", "-", "_">>, <<"Q", "Q", "=", "=", " ">> }

\* texts whose only fault is missing padding: the crate-level base64::decode of
\* autobahn-swap-api-client and jupiter-swap-api rejects them or not depending
\* on the base64 release it is built with, so they are handed only to the
\* decoders that name the STANDARD engine
UnpaddedBlobs == { <<"Q", "Q">>, <<"Q", "Q", "=">> }

MalformedBlobsOf(decoder) ==
    IF decoder \in {"InstructionInternal", "InstructionHelper", "SwapResponse"}
    THEN MalformedBlobs ELSE MalformedBlobs \ UnpaddedBlobs

\* a well-formed wire instruction
WireInstruction ==
    JObj(<< <<"programId", JStr(<<pubkey_to_string("NATIVE_MINT")>>)>>,
            <<"accounts",
              JArr(<< JObj(<< <<"pubkey", JStr(<<pubkey_to_string("TEST_WALLET")>>)>>,
                              <<"isSigner", JBool(TRUE)>>,
                              <<"isWritable", JBool(FALSE)>> >>) >>)>>,
            <<"data", JStr(<<"Q", "Q", "=", "=">>)>> >>)

\* a wire TransactionConfig naming a fee account
WireTransactionConfig ==
    JObj(<< <<"feeAccount", JStr(<<pubkey_to_string("TEST_WALLET")>>)>>,
            <<"asLegacyTransaction", JBool(TRUE)>> >>)

\* the stub quote document with the first route step's swapInfo changed
with_swap_info_member(k, x) ==
    with_member(QuoteDocument, "routePlan",
        JArr(<< with_member(member(QuoteDocument, "routePlan").items[1], "swapInfo",
                    with_member(member(member(QuoteDocument, "routePlan").items[1],
                                       "swapInfo"), k, x)) >>))

\* the wire instruction with its first account meta changed
with_account_member(k, x) ==
    with_member(WireInstruction, "accounts",
        JArr(<< with_member(member(WireInstruction, "accounts").items[1], k, x) >>))

\* the decoders of whole wire values
WireDecoders ==
    {"QuoteResponse", "SwapResponse", "autobahn::SwapResponse", "jupiter-swap-api::SwapResponse",
     "TransactionConfig", "InstructionInternal", "InstructionHelper", "InstructionResponse"}

\* well-formed wire values, by decoder
WellFormed ==
    [d \in WireDecoders |->
        CASE d = "QuoteResponse" -> QuoteDocument
          [] d \in {"SwapResponse", "autobahn::SwapResponse",
                    "jupiter-swap-api::SwapResponse"} -> SwapDocument
          [] d = "TransactionConfig" -> WireTransactionConfig
          [] OTHER -> WireInstruction]

\* wire values with one amount, address or blob member malformed
MalformedInputs ==
    { [codec |-> "from_wire", decoder |-> "QuoteResponse", kind |-> "amount",
       v |-> with_member(QuoteDocument, k, JStr(a))] :
          k \in {"inAmount", "outAmount", "otherAmountThreshold"}, a \in MalformedAmounts }
    \cup { [codec |-> "from_wire", decoder |-> "QuoteResponse", kind |-> "amount",
            v |-> with_swap_info_member(k, JStr(a))] :
               k \in {"inAmount", "outAmount"}, a \in MalformedAmounts }
    \cup { [codec |-> "from_wire", decoder |-> "QuoteResponse", kind |-> "address",
            v |-> with_member(QuoteDocument, k, JStr(a))] :
               k \in {"inputMint", "outputMint"}, a \in MalformedAddresses }
    \cup { [codec |-> "from_wire", decoder |-> "QuoteResponse", kind |-> "address",
            v |-> with_swap_info_member("ammKey", JStr(a))] : a \in MalformedAddresses }
    \cup { [codec |-> "from_wire", decoder |-> "TransactionConfig", kind |-> "address",
            v |-> with_member(WireTransactionConfig, "feeAccount", JStr(a))] :
               a \in MalformedAddresses }
    \cup { [codec |-> "from_wire", decoder |-> d, kind |-> "address",
            v |-> with_member(WireInstruction, "programId", JStr(a))] :
               d \in {"InstructionInternal", "InstructionHelper", "InstructionResponse"},
               a \in MalformedAddresses }
    \cup { [codec |-> "from_wire", decoder |-> d, kind |-> "address",
            v |-> with_account_member("pubkey", JStr(a))] :
               d \in {"InstructionInternal", "InstructionHelper", "InstructionResponse"},
               a \in MalformedAddresses }
    \cup UNION { { [codec |-> "from_wire", decoder |-> d, kind |-> "blob",
                    v |-> with_member(WireInstruction, "data", JStr(b))] :
                       b \in MalformedBlobsOf(d) } :
                  d \in {"InstructionInternal", "InstructionHelper", "InstructionResponse"} }
    \cup UNION { { [codec |-> "from_wire", decoder |-> d, kind |-> "blob",
                    v |-> with_member(SwapDocument, "swapTransaction", JStr(b))] :
                       b \in MalformedBlobsOf(d) } :
                  d \in {"SwapResponse", "autobahn::SwapResponse",
                         "jupiter-swap-api::SwapResponse"} }

\* an object without the members named in ks
without_members(val, ks) == JObj(SelectSeq(val.members, LAMBDA m : m[1] \notin ks))

\* quote responses as an older service writes them: without contextSlot and
\* timeTaken, or with one of them
QuoteDocumentsLackingMeta ==
    { [codec |-> "from_wire", decoder |-> "QuoteResponse", kind |-> "none",
       v |-> without_members(QuoteResponse_serialize(q), ks)] :
          q \in QuoteResponses, ks \in SUBSET {"contextSlot", "timeTaken"} }

\* the same decoders on the well-formed values
WellFormedInputs ==
    { [codec |-> "from_wire", decoder |-> d, kind |-> "none", v |-> WellFormed[d]] :
        d \in WireDecoders }
    \cup QuoteDocumentsLackingMeta


\* four wire instructions that differ in program, accounts and payload
WireIx(n) ==
    JObj(<< <<"programId",
              JStr(<<pubkey_to_string(IF n % 2 = 0 THEN "NATIVE_MINT" ELSE "USDC_MINT")>>)>>,
            <<"accounts",
              JArr([i \in 1..(n % 3) |->
                      JObj(<< <<"pubkey", JStr(<<pubkey_to_string("TEST_WALLET")>>)>>,
                              <<"isSigner", JBool(i = 1)>>,
                              <<"isWritable", JBool(n > 2)>> >>)])>>,
            <<"data", JStr(base64_encode([i \in 1..n |-> 64 + n]))>> >>)

\* the Instruction that WireIx(n) stands for
Ix(n) ==
    [program_id |-> IF n % 2 = 0 THEN "NATIVE_MINT" ELSE "USDC_MINT",
     accounts |-> [i \in 1..(n % 3) |->
                     [pubkey |-> "TEST_WALLET", is_signer |-> (i = 1), is_writable |-> (n > 2)]],
     data |-> [i \in 1..n |-> 64 + n]]

\* lists of instruction numbers put into the list slots of a response
IxLists == { <<>>, <<1, 2>>, <<2, 1>> }

\* address lists put into the lookup-table slot
LookupTableLists == { <<>>, <<"USDC_MINT", "NATIVE_MINT">>, <<"NATIVE_MINT", "USDC_MINT">> }

\* swap-instructions responses: which instruction numbers sit in which slot
SwapInstructionsLayouts ==
    [token_ledger : {0, 4}, compute_budget : IxLists, setup : {<<3>>, <<2, 1>>},
     swap : {4}, cleanup : {0, 2}, other : {<<>>, <<1, 3>>},
     lookup : LookupTableLists, fee : {<<29696, 42043, 11, 0>>}]

WireIxList(ns) == JArr([i \in 1..Len(ns) |-> WireIx(ns[i])])

\* the wire document of a layout; an absent optional instruction is left out
\* (token ledger) or sent as null (cleanup)
SwapInstructionsDocument(l) ==
    JObj((IF l.token_ledger = 0 THEN <<>>
          ELSE << <<"tokenLedgerInstruction", WireIx(l.token_ledger)>> >>)
         \o << <<"computeBudgetInstructions", WireIxList(l.compute_budget)>>,
               <<"setupInstructions", WireIxList(l.setup)>>,
               <<"swapInstruction", WireIx(l.swap)>>,
               <<"cleanupInstruction", IF l.cleanup = 0 THEN JNull ELSE WireIx(l.cleanup)>>,
               <<"otherInstructions", WireIxList(l.other)>>,
               <<"addressLookupTableAddresses",
                 JArr([i \in 1..Len(l.lookup) |-> JStr(<<pubkey_to_string(l.lookup[i])>>)])>>,
               <<"prioritizationFeeLamports", JU64(l.fee)>>,
               <<"computeUnitLimit", JU64(u64_of(1400))>>,
               <<"prioritizationType",
                 JObj(<< <<"jito", JObj(<< <<"lamports", JU64(u64_of(1000))>> >>)>> >>)>> >>)


\* the TransactionConfig values handed to the encoder: the callers' ones, and
\* the default with one field set
TransactionConfigsToEncode ==
    TransactionConfigs
    \cup { [TransactionConfig_default EXCEPT !.prioritization_fee_lamports = Some(f)] :
             f \in {x \in PrioritizationFees :
                      x.tag \in {"Auto", "Disabled"} \/ x.tag = "PriorityLevelWithMaxLamports"
                      \/ x.n \in {u64_of(0), u32_MAX}} }
    \cup { [TransactionConfig_default EXCEPT !.compute_unit_price_micro_lamports = Some(p)] :
             p \in ComputeUnitPrices }
    \cup { [TransactionConfig_default EXCEPT !.tracking_account = Some(p)] : p \in Pubkeys }
    \cup { [TransactionConfig_default EXCEPT !.use_shared_accounts = Some(b),
               !.wrap_and_unwrap_sol = b, !.use_token_ledger = ~b,
               !.correct_last_valid_block_height = ~b] : b \in BOOLEAN }
    \cup { [TransactionConfig_default EXCEPT !.blockhash_slots_to_expiry = Some(u64_of(n)),
               !.dynamic_slippage = Some([min_bps |-> None, max_bps |-> Some(u64_of(n))])] :
             n \in {0, 255} }


\* autobahn account metas as decoded from the wire: a pubkey text that parses or
\* not, and flags present or left out
ResponseAccountMetas ==
    { [pubkey |-> <<pubkey_to_string("TEST_WALLET")>>, is_signer |-> Some(TRUE),
       is_writable |-> None],
      [pubkey |-> <<pubkey_to_string("USDC_MINT")>>, is_signer |-> None,
       is_writable |-> Some(TRUE)],
      [pubkey |-> <<"abc">>, is_signer |-> Some(TRUE), is_writable |-> Some(TRUE)] }

\* autobahn InstructionResponse values handed to to_ix: program id, payload and
\* accounts each well-formed, malformed or (payload, accounts) absent
InstructionResponses ==
    { [program_id |-> p, data |-> d, accounts |-> a] :
        p \in { <<pubkey_to_string("NATIVE_MINT")>>, <<"">>,
                <<"So1111111111111111111111111111111111111111O">> },
        d \in { None, Some(<<>>), Some(<<"Q", "Q", "=", "=">>),
                Some(<<"Q", "!", "=", "=">>), Some(<<"Q", "R", "=", "=">>), Some(<<"Q">>) },
        a \in { None } \cup { Some(x) : x \in SeqUpTo(ResponseAccountMetas, MaxAccounts) } }

CodecInputs ==
    { [codec |-> "PrioritizationFeeLamports", v |-> v] : v \in PrioritizationFees }
    \cup { [codec |-> "PrioritizationFeeLamports_deserialize", v |-> w] :
                w \in FeeWireValues }
    \cup { [codec |-> "ComputeUnitPriceMicroLamports", v |-> v] : v \in ComputeUnitPrices }
    \cup { [codec |-> "field_as_string", v |-> [amount |-> x]] : x \in U64Samples }
    \cup { [codec |-> "PlatformFee", v |-> [amount |-> x, fee_bps |-> u64_of(5)]] :
                x \in U64Samples }
    \cup { [codec |-> "SwapInfo",
            v |-> [amm_key |-> "TEST_WALLET", label |-> "Whirlpool",
                   input_mint |-> "USDC_MINT", output_mint |-> "NATIVE_MINT",
                   in_amount |-> x, out_amount |-> y]] :
                x \in U64Samples, y \in {u64_of(0), u64_MAX} }
    \cup { [codec |-> "QuoteResponse", v |-> q] : q \in QuoteResponsesOfAmounts }
    \cup { [codec |-> m, v |-> [bytes |-> b]] :
                m \in {"base64_serialize_deserialize", "field_as_base64"}, b \in Blobs }
    \cup { [codec |-> d, v |-> w] : d \in InstructionDecoders, w \in WireInstructions }
    \cup { [codec |-> "SwapResponse", crate |-> c, v |-> w] :
                c \in Crates, w \in SwapResponseDocuments }
    \cup { [codec |-> "TransactionConfig::default", v |-> JNull] }
    \cup { [codec |-> "TransactionConfig", v |-> w] : w \in TransactionConfigDocuments }
    \cup { [codec |-> "from_ix", v |-> i] : i \in Instructions }
    \cup MalformedInputs
    \cup WellFormedInputs
    \cup { [codec |-> "SwapInstructionsResponse", layout |-> l,
            v |-> SwapInstructionsDocument(l)] : l \in SwapInstructionsLayouts }
    \cup { [codec |-> "SerializableInstruction", v |-> i] :
             i \in {x \in Instructions : Len(x.accounts) <= 1} }
    \cup { [codec |-> "TransactionConfig_round_trip", v |-> c] :
             c \in TransactionConfigsToEncode }
    \cup { [codec |-> "to_ix", response |-> m] : m \in InstructionResponses }

InitCodec ==
    /\ ctor = [crate |-> "jupiter", fn |-> "new", middlewares |-> <<>>]
    /\ client = construct(ctor)
    /\ pc = "codec"
    /\ op = "none"
    /\ req \in CodecInputs
    /\ wire = NoWire
    /\ resp = NoResp
    /\ mwpos = 0
    /\ trace = <<>>
    /\ sends = 0
    /\ result = NoResult
    /\ attempts = 0
    /\ clock = 0
    /\ sentAt = <<>>
    /\ allFailed = TRUE
    /\ succeededAt = 0

\* the call named by the input ran: it left the wire value and its result
Applied(encoded, decoded) ==
    /\ pc' = "done"
    /\ op' = req.codec
    /\ wire' = encoded
    /\ result' = decoded
    /\ UNCHANGED <<ctor, client, req, resp, mwpos, trace, sends>>
    /\ UNCHANGED retryVars

\* serde_json::to_value then from_value of a PrioritizationFeeLamports
PrioritizationFeeLamports_round_trip ==
    /\ pc = "codec"
    /\ req.codec = "PrioritizationFeeLamports"
    /\ Applied(PrioritizationFeeLamports_serialize(req.v),
               PrioritizationFeeLamports_deserialize(
                   PrioritizationFeeLamports_serialize(req.v)))

\* serde_json::from_value::<PrioritizationFeeLamports> of a wire value
PrioritizationFeeLamports_from_wire ==
    /\ pc = "codec"
    /\ req.codec = "PrioritizationFeeLamports_deserialize"
    /\ Applied(req.v, PrioritizationFeeLamports_deserialize(req.v))

\* serde_json::to_value then from_value of a ComputeUnitPriceMicroLamports
ComputeUnitPriceMicroLamports_round_trip ==
    /\ pc = "codec"
    /\ req.codec = "ComputeUnitPriceMicroLamports"
    /\ Applied(ComputeUnitPriceMicroLamports_serialize(req.v),
               ComputeUnitPriceMicroLamports_deserialize(
                   ComputeUnitPriceMicroLamports_serialize(req.v)))

\* a u64 amount through serde_helpers::field_as_string and back
field_as_string_round_trip ==
    /\ pc = "codec"
    /\ req.codec = "field_as_string"
    /\ Applied(field_as_string_serialize("u64", req.v.amount),
               field_as_string_deserialize("u64",
                   field_as_string_serialize("u64", req.v.amount)))

\* serde_json::to_value then from_value of a PlatformFee
PlatformFee_round_trip ==
    /\ pc = "codec"
    /\ req.codec = "PlatformFee"
    /\ Applied(PlatformFee_serialize(req.v),
               PlatformFee_deserialize(PlatformFee_serialize(req.v)))

\* serde_json::to_value then from_value of a SwapInfo
SwapInfo_round_trip ==
    /\ pc = "codec"
    /\ req.codec = "SwapInfo"
    /\ Applied(SwapInfo_serialize(req.v), SwapInfo_deserialize(SwapInfo_serialize(req.v)))

\* serde_json::to_value then from_value of a QuoteResponse
QuoteResponse_round_trip ==
    /\ pc = "codec"
    /\ req.codec = "QuoteResponse"
    /\ Applied(QuoteResponse_serialize(req.v),
               QuoteResponse_deserialize(QuoteResponse_serialize(req.v)))

\* a byte sequence through swap.rs base64_serialize_deserialize and back
base64_serialize_deserialize_round_trip ==
    /\ pc = "codec"
    /\ req.codec = "base64_serialize_deserialize"
    /\ Applied(base64_serialize_deserialize_serialize(req.v.bytes),
               base64_serialize_deserialize_deserialize(
                   base64_serialize_deserialize_serialize(req.v.bytes)))

\* a byte sequence through serde_helpers::field_as_base64 and back
field_as_base64_round_trip ==
    /\ pc = "codec"
    /\ req.codec = "field_as_base64"
    /\ Applied(field_as_base64_serialize(req.v.bytes),
               field_as_base64_deserialize(field_as_base64_serialize(req.v.bytes)))

\* jupiter-swap-api-client swap.rs: a wire instruction to an Instruction
InstructionInternal_from_wire ==
    /\ pc = "codec"
    /\ req.codec = "InstructionInternal"
    /\ Applied(req.v,
               IF InstructionInternal_deserialize(req.v).ok
               THEN Good(Instruction_from(InstructionInternal_deserialize(req.v).v))
               ELSE InstructionInternal_deserialize(req.v))

\* serde_helpers::field_as_instruction: a wire instruction to an Instruction
InstructionHelper_from_wire ==
    /\ pc = "codec"
    /\ req.codec = "InstructionHelper"
    /\ Applied(req.v, field_as_instruction_deserialize(req.v))

\* autobahn-swap-api-client: a wire instruction decoded, then to_ix
InstructionResponse_from_wire ==
    /\ pc = "codec"
    /\ req.codec = "InstructionResponse"
    /\ Applied(req.v,
               IF InstructionResponse_deserialize(req.v).ok
               THEN to_ix(InstructionResponse_deserialize(req.v).v)
               ELSE InstructionResponse_deserialize(req.v))

\* serde_json::from_value::<SwapResponse> in one of the crates
SwapResponse_from_wire ==
    /\ pc = "codec"
    /\ req.codec = "SwapResponse"
    /\ Applied(req.v, SwapResponse_of(req.crate, req.v))

\* TransactionConfig::default()
TransactionConfig_default_call ==
    /\ pc = "codec"
    /\ req.codec = "TransactionConfig::default"
    /\ Applied(JObj(TransactionConfig_serialize(TransactionConfig_default)),
               Good(TransactionConfig_default))

\* serde_json::from_value::<TransactionConfig>
TransactionConfig_from_wire ==
    /\ pc = "codec"
    /\ req.codec = "TransactionConfig"
    /\ Applied(req.v, TransactionConfig_deserialize(req.v))

\* autobahn: InstructionResponse::from_ix(i), then to_ix on what it gave
from_ix_to_ix ==
    /\ pc = "codec"
    /\ req.codec = "from_ix"
    /\ Applied(from_ix(req.v),
               IF from_ix(req.v).ok THEN to_ix(from_ix(req.v).v) ELSE from_ix(req.v))


\* serde_json::from_value of a whole wire value; an InstructionResponse is then
\* converted with to_ix
decode(decoder, val) ==
    CASE decoder = "QuoteResponse" -> QuoteResponse_deserialize(val)
      [] decoder = "SwapResponse" -> SwapResponse_deserialize(val)
      [] decoder = "autobahn::SwapResponse" -> AutobahnSwapResponse_deserialize(val)
      [] decoder = "jupiter-swap-api::SwapResponse" -> ApiSwapResponse_deserialize(val)
      [] decoder = "TransactionConfig" -> TransactionConfig_deserialize(val)
      [] decoder = "InstructionInternal" -> InstructionInternal_deserialize(val)
      [] decoder = "InstructionHelper" -> field_as_instruction_deserialize(val)
      [] decoder = "InstructionResponse" ->
            IF InstructionResponse_deserialize(val).ok
            THEN to_ix(InstructionResponse_deserialize(val).v)
            ELSE InstructionResponse_deserialize(val)

\* a whole wire value handed to its decoder
from_wire ==
    /\ pc = "codec"
    /\ req.codec = "from_wire"
    /\ Applied(req.v, decode(req.decoder, req.v))


\* swap_instructions on a decodable body: json::<SwapInstructionsResponseInternal>()
\* then .into()
SwapInstructionsResponse_from_wire ==
    /\ pc = "codec"
    /\ req.codec = "SwapInstructionsResponse"
    /\ Applied(req.v,
               IF SwapInstructionsResponseInternal_deserialize(req.v).ok
               THEN Good(SwapInstructionsResponse_from_internal(
                             SwapInstructionsResponseInternal_deserialize(req.v).v))
               ELSE SwapInstructionsResponseInternal_deserialize(req.v))


\* jupiter-swap-api writes an Instruction of a swap-instructions response, and
\* jupiter-swap-api-client reads it
SerializableInstruction_to_wire ==
    /\ pc = "codec"
    /\ req.codec = "SerializableInstruction"
    /\ Applied(SerializableInstruction_serialize(SerializableInstruction_from(req.v)),
               IF InstructionInternal_deserialize(SerializableInstruction_serialize(
                      SerializableInstruction_from(req.v))).ok
               THEN Good(Instruction_from(InstructionInternal_deserialize(
                        SerializableInstruction_serialize(
                            SerializableInstruction_from(req.v))).v))
               ELSE InstructionInternal_deserialize(SerializableInstruction_serialize(
                        SerializableInstruction_from(req.v))))


\* serde_json::to_value then from_value of a TransactionConfig
TransactionConfig_round_trip ==
    /\ pc = "codec"
    /\ req.codec = "TransactionConfig_round_trip"
    /\ Applied(JObj(TransactionConfig_serialize(req.v)),
               TransactionConfig_deserialize(JObj(TransactionConfig_serialize(req.v))))


\* autobahn: InstructionResponse::to_ix on a decoded response
to_ix_call ==
    /\ pc = "codec"
    /\ req.codec = "to_ix"
    /\ Applied(req.response, to_ix(req.response))

NextCodec ==
    \/ PrioritizationFeeLamports_round_trip
    \/ PrioritizationFeeLamports_from_wire
    \/ ComputeUnitPriceMicroLamports_round_trip
    \/ field_as_string_round_trip
    \/ PlatformFee_round_trip
    \/ SwapInfo_round_trip
    \/ QuoteResponse_round_trip
    \/ base64_serialize_deserialize_round_trip
    \/ field_as_base64_round_trip
    \/ InstructionInternal_from_wire
    \/ InstructionHelper_from_wire
    \/ InstructionResponse_from_wire
    \/ SwapResponse_from_wire
    \/ TransactionConfig_default_call
    \/ TransactionConfig_from_wire
    \/ from_ix_to_ix
    \/ from_wire
    \/ SwapInstructionsResponse_from_wire
    \/ SerializableInstruction_to_wire
    \/ TransactionConfig_round_trip
    \/ to_ix_call

SpecCodec == InitCodec /\ [][NextCodec]_vars

-----------------------------------------------------------------------------
(* Properties of the codecs *)

Ran(name) == pc = "done" /\ op = name

\* C11: deserializing the serialized form of a PrioritizationFeeLamports value
\* returns an equal value, and no other value has the same serialized form.
C11_PrioritizationFeeRoundTrip ==
    Ran("PrioritizationFeeLamports") =>
        /\ result = Good(req.v)
        /\ \A other \in PrioritizationFees :
              json_text(PrioritizationFeeLamports_serialize(other)) = json_text(wire)
                  => other = req.v

C11_Witness ==
    /\ Ran("PrioritizationFeeLamports")
    /\ req.v.tag = "PriorityLevelWithMaxLamports"
    /\ req.v.max_lamports = u64_MAX
    /\ result.ok
    /\ json_text(wire) = "{\"priorityLevelWithMaxLamports\":{\"priorityLevel\":\"veryHigh\",\"maxLamports\":18446744073709551615,\"global\":true}}"

\* C12: deserializing the serialized form of a ComputeUnitPriceMicroLamports
\* value, MicroLamports(n) or Auto, returns an equal value.
C12_ComputeUnitPriceRoundTrip ==
    Ran("ComputeUnitPriceMicroLamports") => result = Good(req.v)

\* the shapes the claim lists as matching no declared shape
UndeclaredFeeShape(val) ==
    \/ val.t = "str" /\ string_of(val.s) \notin {"auto", "disabled"}
    \/ val.t = "obj" /\ Len(val.members) = 1
          /\ val.members[1][1] \notin {"autoMultiplier", "jitoTipLamports",
                                       "priorityLevelWithMaxLamports"}
    \/ val.t = "obj" /\ Len(val.members) > 1
    \/ val.t \in {"i64", "f64", "bool"}

\* C13: decoding a PrioritizationFeeLamports wire value of a shape that matches
\* none of the declared ones fails and yields no variant.
C13_UndeclaredFeeShapeFails ==
    (Ran("PrioritizationFeeLamports_deserialize") /\ UndeclaredFeeShape(req.v))
        => ~result.ok

\* the characters of a decimal u64 text
DecimalDigits == {"0", "1", "2", "3", "4", "5", "6", "7", "8", "9"}

IsDecimalString(val) ==
    val.t = "str" /\ val.s # <<>> /\ \A i \in 1..Len(val.s) : val.s[i] \in DecimalDigits

\* C14: for every u64 amount x, decoding the decimal-string wire encoding of x
\* yields x, for the amount of a request and for the amounts of QuoteResponse,
\* SwapInfo and PlatformFee.
C14_AmountStringRoundTrip ==
    /\ Ran("field_as_string") =>
          IsDecimalString(wire) /\ result = Good(req.v.amount)
    /\ Ran("PlatformFee") =>
          IsDecimalString(member(wire, "amount")) /\ result = Good(req.v)
    /\ Ran("SwapInfo") =>
          /\ IsDecimalString(member(wire, "inAmount"))
          /\ IsDecimalString(member(wire, "outAmount"))
          /\ result = Good(req.v)
    /\ Ran("QuoteResponse") =>
          /\ IsDecimalString(member(wire, "inAmount"))
          /\ IsDecimalString(member(wire, "outAmount"))
          /\ IsDecimalString(member(wire, "otherAmountThreshold"))
          /\ result.ok
          /\ result.v.in_amount = req.v.in_amount
          /\ result.v.out_amount = req.v.out_amount
          /\ result.v.other_amount_threshold = req.v.other_amount_threshold

C14_Witness ==
    /\ Ran("QuoteResponse")
    /\ req.v.in_amount = <<0, 0, 1, 0>>
    /\ req.v.out_amount = u64_MAX
    /\ string_of(member(wire, "outAmount").s) = "18446744073709551615"
    /\ string_of(member(wire, "inAmount").s) = "4294967296"
    /\ result.ok
    /\ result.v.out_amount = u64_MAX

\* the text is standard padded base64: whole groups of four characters of the
\* RFC 4648 alphabet, '=' only as the last one or two characters
IsPaddedBase64(chars) ==
    /\ Len(chars) % 4 = 0
    /\ \A i \in 1..Len(chars) :
          \/ base64_value(chars[i]) \in 0..63
          \/ chars[i] = "=" /\ i >= Len(chars) - 1
                /\ \A j \in i..Len(chars) : chars[j] = "="

\* C15: for every byte sequence b, the empty one included, base64 encoding
\* gives a text of the standard padded alphabet (it never fails) and decoding
\* that text yields exactly b.
C15_Base64RoundTrip ==
    (pc = "done" /\ op \in {"base64_serialize_deserialize", "field_as_base64"}) =>
        /\ wire.t = "str"
        /\ IsPaddedBase64(wire.s)
        /\ Len(wire.s) = 4 * ((Len(req.v.bytes) + 2) \div 3)
        /\ result = Good(req.v.bytes)

C15_Witness ==
    /\ Ran("field_as_base64")
    /\ req.v.bytes = <<255, 255, 128>>
    /\ string_of(wire.s) = "//+A"
    /\ result = Good(<<255, 255, 128>>)

\* the account-meta entries of a wire instruction
WireAccounts(val) == member(val, "accounts").items

\* C16: decoding a wire instruction whose account-meta entry omits isSigner
\* and/or isWritable succeeds and yields an AccountMeta with each omitted flag
\* set to false.
C16_OmittedFlagsDefaultFalse ==
    (pc = "done" /\ op \in InstructionDecoders
        /\ \E i \in 1..Len(WireAccounts(req.v)) :
              \/ ~has_member(WireAccounts(req.v)[i], "isSigner")
              \/ ~has_member(WireAccounts(req.v)[i], "isWritable"))
    => /\ result.ok
       /\ Len(result.v.accounts) = Len(WireAccounts(req.v))
       /\ \A i \in 1..Len(WireAccounts(req.v)) :
             /\ ~has_member(WireAccounts(req.v)[i], "isSigner")
                   => result.v.accounts[i].is_signer = FALSE
             /\ ~has_member(WireAccounts(req.v)[i], "isWritable")
                   => result.v.accounts[i].is_writable = FALSE

\* a body with exactly a valid base64 swapTransaction and an integer
\* lastValidBlockHeight
OnlyTransactionAndHeight(val) ==
    /\ val.t = "obj"
    /\ Len(val.members) = 2
    /\ has_member(val, "swapTransaction")
    /\ has_member(val, "lastValidBlockHeight")
    /\ member(val, "swapTransaction").t = "str"
    /\ base64_decode(member(val, "swapTransaction").s).ok
    /\ member(val, "lastValidBlockHeight").t = "u64"

\* C17: a SwapResponse body that carries only a valid base64 swapTransaction
\* and an integer lastValidBlockHeight decodes, with swap_transaction the
\* decoded bytes and last_valid_block_height the integer.
C17_MinimalSwapResponseDecodes ==
    (Ran("SwapResponse") /\ OnlyTransactionAndHeight(req.v)) =>
        /\ result.ok
        /\ result.v.swap_transaction = base64_decode(member(req.v, "swapTransaction").s).v
        /\ result.v.last_valid_block_height = member(req.v, "lastValidBlockHeight").n

\* C19 as stated: TransactionConfig::default() has wrap_and_unwrap_sol = true
\* and use_shared_accounts set to enabled, the same on every call.
C19_DefaultSharedAccountsEnabled ==
    Ran("TransactionConfig::default") =>
        /\ result.ok
        /\ result.v.wrap_and_unwrap_sol = TRUE
        /\ result.v.use_shared_accounts = Some(TRUE)

\* C19 amended: TransactionConfig::default() has wrap_and_unwrap_sol = true and
\* leaves use_shared_accounts unset (None, sent as null, so the service
\* decides), the same on every call; a TransactionConfig decoded from an object
\* that lacks these members takes the same values.
C19_DefaultSharedAccountsUnset ==
    /\ Ran("TransactionConfig::default") =>
          /\ result.ok
          /\ result.v.wrap_and_unwrap_sol = TRUE
          /\ result.v.use_shared_accounts = None
          /\ member(wire, "wrapAndUnwrapSol") = JBool(TRUE)
          /\ member(wire, "useSharedAccounts") = JNull
    /\ Ran("TransactionConfig") =>
          /\ result.ok
          /\ ~has_member(req.v, "wrapAndUnwrapSol") => result.v.wrap_and_unwrap_sol = TRUE
          /\ ~has_member(req.v, "useSharedAccounts") => result.v.use_shared_accounts = None

C19_Witness ==
    /\ Ran("TransactionConfig::default")
    /\ result.ok
    /\ result.v.wrap_and_unwrap_sol
    /\ ~result.v.use_shared_accounts.some
    /\ member(wire, "useSharedAccounts") = JNull

\* C20: for every Instruction i, to_ix(from_ix(i)) succeeds and equals i: same
\* program id, same accounts in the same order with the same flags, same
\* payload bytes.
C20_InstructionRoundTrip ==
    Ran("from_ix") => result = Good(req.v)

C20_Witness ==
    /\ Ran("from_ix")
    /\ Len(req.v.accounts) = 2
    /\ req.v.accounts[1].is_signer /\ ~req.v.accounts[1].is_writable
    /\ ~req.v.accounts[2].is_signer /\ req.v.accounts[2].is_writable
    /\ req.v.accounts[1].pubkey # req.v.accounts[2].pubkey
    /\ req.v.data = <<255, 0>>
    /\ result = Good(req.v)

\* a quote call answered with a success status and the stub quote body, whose
\* amounts are the decimal strings "1000000" and "50000000000"
QuoteAnswered ==
    /\ pc = "done" /\ op = "quote"
    /\ resp.kind = "response" /\ resp.status \in 200..299 /\ resp.readable
    /\ resp.body = QuoteBody
    /\ string_of(member(QuoteDocument, "inAmount").s) = "1000000"
    /\ string_of(member(QuoteDocument, "outAmount").s) = "50000000000"
    /\ member(QuoteDocument, "swapMode") = JStr(<<"ExactIn">>)

\* C18: a quote call whose success response carries in_amount "1000000" and
\* out_amount "50000000000" as decimal strings and swapMode "ExactIn" returns
\* in_amount 1_000_000, out_amount 50_000_000_000 (above 32 bits, untruncated)
\* and SwapMode::ExactIn.
C18_QuoteAmountsDecodeUntruncated ==
    QuoteAnswered =>
        /\ result.tag = "Ok"
        /\ result.value.type = "QuoteResponse"
        /\ result.value.data.in_amount = u64_of(1000000)
        /\ result.value.data.out_amount = <<29696, 42043, 11, 0>>
        /\ ~fits_u32(result.value.data.out_amount)
        /\ result.value.data.swap_mode = "ExactIn"

C18_Witness ==
    /\ QuoteAnswered
    /\ resp.status = 200
    /\ result.tag = "Ok"
    /\ result.value.data.out_amount[3] = 11
    /\ result.value.data.swap_mode = "ExactIn"

C22_RecognizerOrderIrrelevant ==
    Ran("PrioritizationFeeLamports_deserialize") =>
        /\ result = first_match(SentinelsFirstOrder, req.v)
        /\ result = first_match(DeriveOrder, req.v)
        /\ Cardinality({r \in Recognizers : recognize(r, req.v).ok}) <= 1
        /\ \A order \in Orderings(Recognizers) : first_match(order, req.v) = result

C22_Witness ==
    /\ Ran("PrioritizationFeeLamports_deserialize")
    /\ req.v = JObj(<< <<"jitoTipLamports", JU64(u64_of(1000))>> >>)
    /\ result = Good([tag |-> "JitoTipLamports", n |-> u64_of(1000)])
    /\ ~recognize("Auto", req.v).ok
    /\ ~recognize("Disabled", req.v).ok
    /\ ~recognize("Lamports", req.v).ok

\* the instructions a list of instruction numbers stands for
IxList(ns) == [i \in 1..Len(ns) |-> Ix(ns[i])]

\* C23: converting a decoded swap-instructions response puts the instructions of
\* each wire field into the slot of the same name, in the same number and
\* order, and carries the lookup-table addresses and the fee and compute
\* metadata over unchanged.
C23_InstructionsKeepTheirSlots ==
    Ran("SwapInstructionsResponse") =>
        /\ result.ok
        /\ result.v.token_ledger_instruction =
              (IF req.layout.token_ledger = 0 THEN None ELSE Some(Ix(req.layout.token_ledger)))
        /\ result.v.compute_budget_instructions = IxList(req.layout.compute_budget)
        /\ result.v.setup_instructions = IxList(req.layout.setup)
        /\ result.v.swap_instruction = Ix(req.layout.swap)
        /\ result.v.cleanup_instruction =
              (IF req.layout.cleanup = 0 THEN None ELSE Some(Ix(req.layout.cleanup)))
        /\ result.v.other_instructions = IxList(req.layout.other)
        /\ result.v.address_lookup_table_addresses = req.layout.lookup
        /\ result.v.prioritization_fee_lamports = req.layout.fee
        /\ result.v.compute_unit_limit = u64_of(1400)
        /\ result.v.prioritization_type = Some([tag |-> "Jito", lamports |-> u64_of(1000)])
        /\ result.v.dynamic_slippage_report = None
        /\ result.v.simulation_error = None

C23_Witness ==
    /\ Ran("SwapInstructionsResponse")
    /\ req.layout.token_ledger = 4
    /\ req.layout.compute_budget = <<2, 1>>
    /\ req.layout.setup = <<3>>
    /\ req.layout.other = <<1, 3>>
    /\ req.layout.lookup = <<"NATIVE_MINT", "USDC_MINT">>
    /\ result.ok
    /\ Len(result.v.compute_budget_instructions) = 2
    /\ result.v.compute_budget_instructions[1].data = <<66, 66>>
    /\ result.v.setup_instructions # result.v.other_instructions

\* C26: get_version classifies no status: whenever a response was obtained and
\* its body can be read it returns Ok with the body text, whatever the status;
\* it returns an error only when the send or the body read failed, and never
\* RequestFailed.
C26_GetVersionIgnoresStatus ==
    (pc = "done" /\ op = "get_version") =>
        /\ (resp.kind = "response" /\ resp.readable)
              => result = Ok([type |-> "String", data |-> resp.body])
        /\ result.tag = "Err"
              => /\ resp.kind \in {"error", "mw_error"} \/ ~resp.readable
                 /\ result.kind = "anyhow"
        /\ result.kind # "RequestFailed"

C26_Witness ==
    /\ pc = "done" /\ op = "get_version"
    /\ resp = Response(500, "Bad Gateway", TRUE)
    /\ result = Ok([type |-> "String", data |-> "Bad Gateway"])

\* the wire member of each TransactionConfig field (rename_all = "camelCase")
TransactionConfigFields ==
    << <<"wrapAndUnwrapSol", "wrap_and_unwrap_sol">>,
       <<"allowOptimizedWrappedSolTokenAccount", "allow_optimized_wrapped_sol_token_account">>,
       <<"feeAccount", "fee_account">>,
       <<"destinationTokenAccount", "destination_token_account">>,
       <<"trackingAccount", "tracking_account">>,
       <<"computeUnitPriceMicroLamports", "compute_unit_price_micro_lamports">>,
       <<"prioritizationFeeLamports", "prioritization_fee_lamports">>,
       <<"dynamicComputeUnitLimit", "dynamic_compute_unit_limit">>,
       <<"asLegacyTransaction", "as_legacy_transaction">>,
       <<"useSharedAccounts", "use_shared_accounts">>,
       <<"useTokenLedger", "use_token_ledger">>,
       <<"skipUserAccountsRpcCalls", "skip_user_accounts_rpc_calls">>,
       <<"keyedUiAccounts", "keyed_ui_accounts">>,
       <<"programAuthorityId", "program_authority_id">>,
       <<"dynamicSlippage", "dynamic_slippage">>,
       <<"blockhashSlotsToExpiry", "blockhash_slots_to_expiry">>,
       <<"correctLastValidBlockHeight", "correct_last_valid_block_height">> >>

\* the two enum-typed fields of c survive their own encoding
VariantFieldsRoundTrip(c) ==
    /\ c.compute_unit_price_micro_lamports.some =>
          ComputeUnitPriceMicroLamports_deserialize(
              ComputeUnitPriceMicroLamports_serialize(c.compute_unit_price_micro_lamports.v))
            = Good(c.compute_unit_price_micro_lamports.v)
    /\ c.prioritization_fee_lamports.some =>
          PrioritizationFeeLamports_deserialize(
              PrioritizationFeeLamports_serialize(c.prioritization_fee_lamports.v))
            = Good(c.prioritization_fee_lamports.v)

\* C27: a TransactionConfig decoded from a wire object has, in every field whose
\* member is absent, the value of TransactionConfig::default() (the empty
\* object gives the default config), and a TransactionConfig whose enum-typed
\* fields round-trip is returned by decoding its own encoding.
C27_AbsentFieldsDefaultAndRoundTrip ==
    /\ Ran("TransactionConfig") =>
          /\ result.ok
          /\ DOMAIN result.v = DOMAIN TransactionConfig_default
          /\ \A i \in 1..Len(TransactionConfigFields) :
                ~has_member(req.v, TransactionConfigFields[i][1]) =>
                    result.v[TransactionConfigFields[i][2]]
                        = TransactionConfig_default[TransactionConfigFields[i][2]]
          /\ req.v = JObj(<<>>) => result = Good(TransactionConfig_default)
    /\ (Ran("TransactionConfig_round_trip") /\ VariantFieldsRoundTrip(req.v)) =>
          result = Good(req.v)

C27_Witness ==
    /\ Ran("TransactionConfig_round_trip")
    /\ VariantFieldsRoundTrip(req.v)
    /\ req.v.fee_account = Some("TEST_WALLET")
    /\ req.v.tracking_account = None
    /\ req.v.prioritization_fee_lamports.some
    /\ req.v.prioritization_fee_lamports.v.tag = "PriorityLevelWithMaxLamports"
    /\ member(wire, "trackingAccount") = JNull
    /\ member(wire, "feeAccount") = JStr(<<pubkey_to_string("TEST_WALLET")>>)
    /\ result = Good(req.v)

\* C28: a QuoteResponse embedded in a SwapRequest is re-encoded without loss:
\* decoding the encoding of q gives the same mints, amounts, threshold, swap
\* mode, slippage, platform fee, price impact and route plan; a wire response
\* lacking contextSlot or timeTaken decodes with that field 0.
C28_QuoteResponseReencodedWithoutLoss ==
    /\ Ran("QuoteResponse") =>
          /\ result.ok
          /\ result.v.input_mint = req.v.input_mint
          /\ result.v.output_mint = req.v.output_mint
          /\ result.v.in_amount = req.v.in_amount
          /\ result.v.out_amount = req.v.out_amount
          /\ result.v.other_amount_threshold = req.v.other_amount_threshold
          /\ result.v.swap_mode = req.v.swap_mode
          /\ result.v.slippage_bps = req.v.slippage_bps
          /\ result.v.platform_fee = req.v.platform_fee
          /\ result.v.price_impact_pct = req.v.price_impact_pct
          /\ result.v.route_plan = req.v.route_plan
    /\ (Ran("from_wire") /\ req.decoder = "QuoteResponse" /\ req.kind = "none") =>
          /\ result.ok
          /\ ~has_member(req.v, "contextSlot") => result.v.context_slot = u64_of(0)
          /\ ~has_member(req.v, "timeTaken") => result.v.time_taken = "0.0"

C28_Witness ==
    /\ Ran("QuoteResponse")
    /\ req.v.platform_fee = Some([amount |-> u64_of(1), fee_bps |-> u64_of(5)])
    /\ req.v.swap_mode = "ExactOut"
    /\ req.v.in_amount = <<29696, 42043, 11, 0>>
    /\ member(wire, "platformFee") =
          JObj(<< <<"amount", JStr(<<"1">>)>>, <<"feeBps", JU64(u64_of(5))>> >>)
    /\ result.ok
    /\ result.v.platform_fee = req.v.platform_fee
    /\ result.v.in_amount = req.v.in_amount

\* an address text of this model that is a base58 address
WellFormedAddress(chars) ==
    string_of(chars) \in {pubkey_to_string(p) : p \in Pubkeys \cup {"default"}}

\* some part of the InstructionResponse m is malformed
MalformedPart(m) ==
    \/ ~WellFormedAddress(m.program_id)
    \/ m.data.some /\ m.data.v \in MalformedBlobs
    \/ m.accounts.some
          /\ \E i \in 1..Len(m.accounts.v) : ~WellFormedAddress(m.accounts.v[i].pubkey)

\* C29: to_ix takes an absent data for an empty payload and an absent accounts
\* for an empty account list; when the program id, an account pubkey or the
\* base64 payload is malformed it returns an error and no Instruction, never
\* one built from the valid part of the input.
C29_ToIxAllOrNothing ==
    Ran("to_ix") =>
        /\ MalformedPart(req.response) => ~result.ok /\ "v" \notin DOMAIN result
        /\ ~MalformedPart(req.response) =>
              /\ result.ok
              /\ ~req.response.data.some => result.v.data = <<>>
              /\ ~req.response.accounts.some => result.v.accounts = <<>>
              /\ req.response.accounts.some => Len(result.v.accounts) = Len(req.response.accounts.v)

C29_Witness ==
    /\ Ran("to_ix")
    /\ WellFormedAddress(req.response.program_id)
    /\ req.response.data = None
    /\ req.response.accounts.some
    /\ Len(req.response.accounts.v) = 2
    /\ WellFormedAddress(req.response.accounts.v[1].pubkey)
    /\ ~WellFormedAddress(req.response.accounts.v[2].pubkey)
    /\ ~result.ok

-----------------------------------------------------------------------------
(* Concurrent calls on one client: every call holds &self of the client or of
   a clone of it, and runs as its own future. In this specification pc, op,
   req, wire, resp and result hold one entry per call in flight. *)

Tasks == 1..MaxCalls

\* #[derive(Clone)] JupiterSwapApiClient: the base path copied, the middleware
\* chain shared
JupiterSwapApiClient_clone(c) ==
    [crate |-> c.crate, base_path |-> c.base_path, middlewares |-> c.middlewares]

\* the clients a call may be made on
Handles == {client, JupiterSwapApiClient_clone(client)}

\* the requests the concurrent callers pass
ConcurrentQuoteRequests ==
    {q \in QuoteRequests : q = ExampleQuoteRequest \/ q.amount = 7}

ConcurrentSwapRequests ==
    {r \in SwapRequests(client.crate) :
        /\ r.quote_response.swap_mode = "ExactIn"
        /\ client.crate = "jupiter" => r.config = TransactionConfig_default
        /\ client.crate = "autobahn" => r.compute_unit_price_micro_lamports = None}

\* the answers the service gives on the endpoint of operation o
ConcurrentResponses(o) ==
    { Response(500, "Bad Gateway", TRUE),
      Response(200, CASE o = "quote" -> QuoteBody
                      [] o = "swap" -> SwapBody
                      [] o = "swap_instructions" -> SwapInstructionsBody, TRUE) }

InitConcurrent ==
    /\ ctor \in {k \in Constructions : k.middlewares \in {<<>>, <<1>>}}
    /\ client = construct(ctor)
    /\ pc = [t \in Tasks |-> "idle"]
    /\ op = [t \in Tasks |-> "none"]
    /\ req = [t \in Tasks |-> NoValue]
    /\ wire = [t \in Tasks |-> NoWire]
    /\ resp = [t \in Tasks |-> NoResp]
    /\ result = [t \in Tasks |-> NoResult]
    /\ mwpos = 0
    /\ trace = <<>>
    /\ sends = 0
    /\ attempts = 0
    /\ clock = 0
    /\ sentAt = <<>>
    /\ allFailed = TRUE
    /\ succeededAt = 0

\* call t builds request w for operation o and awaits send()
Begin(t, o, r, w) ==
    /\ pc[t] = "idle"
    /\ pc' = [pc EXCEPT ![t] = "transport"]
    /\ op' = [op EXCEPT ![t] = o]
    /\ req' = [req EXCEPT ![t] = r]
    /\ wire' = [wire EXCEPT ![t] = w]
    /\ UNCHANGED <<ctor, client, resp, result, mwpos, trace, sends>>
    /\ UNCHANGED retryVars

\* send() of call t yields r
Yield(t, r) ==
    /\ pc[t] = "transport"
    /\ resp' = [resp EXCEPT ![t] = r]
    /\ pc' = [pc EXCEPT ![t] = "received"]
    /\ UNCHANGED <<ctor, client, op, req, wire, result, mwpos, trace, sends>>
    /\ UNCHANGED retryVars

\* call t returns what its continuation k says
Complete(t, k) ==
    /\ pc[t] = "received"
    /\ pc' = [pc EXCEPT ![t] = "done"]
    /\ result' = [result EXCEPT ![t] = k.result]
    /\ UNCHANGED <<ctor, client, op, req, wire, resp, mwpos, trace, sends>>
    /\ UNCHANGED retryVars

concurrent_quote ==
    \E t \in Tasks : \E self \in Handles : \E q \in ConcurrentQuoteRequests :
    \E extras \in extra_args_queries(q.quote_args) :
        Begin(t, "quote", q, quote_request(self, q, extras))

concurrent_swap ==
    \E t \in Tasks : \E self \in Handles : \E r \in ConcurrentSwapRequests :
        Begin(t, "swap", r, swap_request(self, r, <<>>))

concurrent_swap_instructions ==
    \E t \in Tasks : \E self \in Handles : \E r \in ConcurrentSwapRequests :
        Begin(t, "swap_instructions", r, swap_instructions_request(self, r))

concurrent_respond ==
    \E t \in {u \in Tasks : pc[u] = "transport"} : \E r \in ConcurrentResponses(op[t]) : Yield(t, r)

concurrent_fail ==
    \E t \in Tasks : Yield(t, TransportError)

concurrent_quote_await ==
    \E t \in Tasks :
        /\ op[t] = "quote"
        /\ Complete(t, quote_after_send(client, resp[t]))

concurrent_swap_await ==
    \E t \in Tasks :
        /\ op[t] = "swap"
        /\ Complete(t, swap_after_send(client, resp[t]))

concurrent_swap_instructions_await ==
    \E t \in Tasks :
        /\ op[t] = "swap_instructions"
        /\ Complete(t, swap_instructions_after_send(client, resp[t]))

\* the caller of call t has its value
concurrent_finish ==
    \E t \in Tasks :
        /\ pc[t] = "done"
        /\ pc' = [pc EXCEPT ![t] = "idle"]
        /\ op' = [op EXCEPT ![t] = "none"]
        /\ req' = [req EXCEPT ![t] = NoValue]
        /\ wire' = [wire EXCEPT ![t] = NoWire]
        /\ resp' = [resp EXCEPT ![t] = NoResp]
        /\ result' = [result EXCEPT ![t] = NoResult]
        /\ UNCHANGED <<ctor, client, mwpos, trace, sends>>
        /\ UNCHANGED retryVars

NextConcurrent ==
    \/ concurrent_quote
    \/ concurrent_swap
    \/ concurrent_swap_instructions
    \/ concurrent_respond
    \/ concurrent_fail
    \/ concurrent_quote_await
    \/ concurrent_swap_await
    \/ concurrent_swap_instructions_await
    \/ concurrent_finish

SpecConcurrent == InitConcurrent /\ [][NextConcurrent]_vars

\* what a call of operation o returns when send() yielded r, the call being
\* alone on a client constructed as k
AloneOutcome(k, o, r) ==
    CASE o = "quote" -> quote_after_send(construct(k), r).result
      [] o = "swap" -> swap_after_send(construct(k), r).result
      [] o = "swap_instructions" -> swap_instructions_after_send(construct(k), r).result

\* the requests a call of operation o with request value r may send
AloneRequests(k, o, r) ==
    CASE o = "quote" -> {quote_request(construct(k), r, e) : e \in extra_args_queries(r.quote_args)}
      [] o = "swap" -> {swap_request(construct(k), r, <<>>)}
      [] o = "swap_instructions" -> {swap_instructions_request(construct(k), r)}

C25_WrittenInstructionDecodes ==
    Ran("SerializableInstruction") =>
        /\ member(wire, "programId") = JStr(<<pubkey_to_string(req.v.program_id)>>)
        /\ \A i \in 1..Len(req.v.accounts) :
              member(member(wire, "accounts").items[i], "pubkey")
                 = JStr(<<pubkey_to_string(req.v.accounts[i].pubkey)>>)
        /\ member(wire, "data") = JStr(base64_encode(req.v.data))
        /\ result = Good(req.v)

====
